---- MODULE Spec2Model ----
(***************************************************************************)
(* A model of the poster generator of rahul7697762/graphics: the template  *)
(* dispatcher (app/template_selector.py), the amenity and text layout      *)
(* routines and the render pipelines of the four templates                 *)
(* (app/templates/template1..4.py) and the marketing-copy provider         *)
(* (app/services/text_service.py).                                         *)
(*                                                                         *)
(* Every subsystem has its own next-state relation and specification over  *)
(* the one Init; Spec is their interleaving.                               *)
(***************************************************************************)
EXTENDS Integers, Sequences, FiniteSets, TLC

VARIABLES
    \* ---- app/template_selector.py: the registry and the calls observed
    TEMPLATES,          \* id -> [render, name, description, preview_color]
    TEMPLATE_ALIASES,   \* alias -> id
    TEMPLATE_LIST,      \* list(TEMPLATES.values())
    picks,              \* the (template_id, returned function) pairs seen so far
    sel_ret,            \* what the last call of a selector function returned
    sel_log,            \* the selector functions called so far, in order
    \* ---- template1.draw_amenities_horizontal_wrapped: one call
    am_pc,              \* "idle" | "loop" | "done"
    am_items,           \* the items argument
    am_i,               \* index of the next item of the for loop
    am_x, am_y,         \* the cursors x and y
    am_placed,          \* what was pasted and drawn, in order
    \* ---- template4.get_wrapped_text: one call
    wt_pc,              \* "idle" | "loop" | "done"
    wt_text,            \* the text argument, a sequence of characters
    wt_max,             \* the max_pixel_width argument
    wt_words,           \* words = text.split()
    wt_i,               \* index of the next word of the for loop
    wt_lines,           \* lines
    wt_current,         \* current
    wt_out,             \* the returned string
    wt_first,           \* the earlier call whose output this call wraps again
    \* ---- the filesystem the renders read and write
    fs_missing,         \* the asset files that do not exist
    fs_corrupt,         \* the asset files whose content cannot be decoded
    tpl_png,            \* the dimensions of templates/template2.png
    files,              \* output path -> what the file holds (Absent if none)
    TICK_ICON,          \* template1's module-level icon, loaded at import
    \* ---- templateN.render: the invocations, one per element of Procs
    r_pc,               \* "idle" | "running" | "done" | "raised"
    r_at,               \* index of the next stage of the template's render
    r_tpl,              \* which template's render runs (0 when idle)
    r_job,              \* the job_id argument
    r_bg,               \* what Image.open(bg_path) finds: "ok" | "missing" | "corrupt"
    r_data,             \* the data argument (its logo_path)
    r_canvas,           \* the layers composited on this invocation's canvas
    r_geom,             \* its images: the sizes of background, template, canvas
                        \* and paste, the base image and the glass panel's crop
    r_fonts,            \* the font files replaced by the default font
    r_trace,            \* the stages run so far, in order
    r_created,          \* whether the save's open created the output file
    r_ret,              \* the returned path
    r_exc,              \* the exception that left render
    \* ---- text_service.generate_marketing_text: the last call
    mt_pc,              \* "idle" | "done" | "raised"
    mt_mode,            \* "mock" | "model"
    mt_data,            \* the data argument
    mt_reply,           \* the lines of the model's reply
    mt_result,          \* the returned record
    mt_exc,             \* the exception that left the function
    \* ---- load_font, load_icon, load_logo: the last call
    ld,                 \* [fn, path, size, ret, exc], None before any call
    \* ---- the amenity blocks of templates 2, 3 and 4: one run
    ly_pc,              \* "idle" | "left" | "right" | "loop" | "done"
    ly_tpl,             \* the template whose block runs (0 when idle)
    ly_items,           \* content["amenities"]
    ly_i,               \* position of the next item in the list being walked
    ly_y,               \* template 2's cursor y
    ly_drawn,           \* what was drawn, in order
    \* ---- generate_blog_content: one call
    bl_pc,              \* "idle" | "loop" | "call" | "done" | "raised" | "blocked"
    bl_variant,         \* "service" (blog_ai_service.py) | "script" (generate_blog.py)
    bl_length,          \* the length_num argument
    bl_max,             \* the max_attempts argument
    bl_text,            \* blog_text, a sequence of characters
    bl_words,           \* word_count
    bl_attempts,        \* current_attempts
    bl_counts,          \* word_count after each provider call, in order
    bl_ret,             \* the returned dict
    bl_exc,             \* the exception that left the function
    \* ---- api/blog.py generate_blog: one request
    ep_pc,              \* "idle" | "keywords" | "kw_fallback" | "content" | "wait"
                        \* | "respond" | "done" | "failed"
    ep_body,            \* the request body: topic, industry, keywords, length
    ep_topic,           \* topic
    ep_keywords,        \* keywords
    ep_called,          \* the provider functions called so far
    ep_openai,          \* the text the OpenAI content call returned
    ep_content,         \* content_result
    ep_response,        \* the response: status and body
    \* ---- main() of generate_flyer.py and generate_blog.py: one run
    mn_pc,              \* "idle" | "parse" | "enter" | "pipeline" | "exit" | "success"
                        \* | "except" | "done" | "blocked"
    mn_script,          \* "flyer" | "blog"
    mn_argv,            \* sys.argv: "none" | "invalid" | "json"
    mn_at,              \* the next stage of the pipeline
    mn_exc,             \* the stage whose exception is propagating, or None
    mn_original,        \* StdoutRedirector._original_stdout
    sys_stdout,         \* the stream sys.stdout names: "stdout" | "stderr"
    real_stdout,        \* what was written to the process's stdout, in order
    real_stderr,        \* how many lines were written to the process's stderr
    \* ---- api/generate.py generate_poster: the requests in progress
    bg_file,            \* whose image outputs/background.png holds (Absent if none)
    rq_pc,              \* "idle" | "background" | "text" | "pick" | "render"
                        \* | "respond" | "done" | "failed"
    rq_mock,            \* whether init_vertex returned the mock models
    rq_bg,              \* what generate_background left at the path it returned
    rq_fn,              \* template_fn
    rq_read,            \* what the render read at bg_path
    rq_response         \* the response

selectorVars == <<TEMPLATES, TEMPLATE_ALIASES, TEMPLATE_LIST, picks, sel_ret, sel_log>>

amenityVars == <<am_pc, am_items, am_i, am_x, am_y, am_placed>>

wrapVars == <<wt_pc, wt_text, wt_max, wt_words, wt_i, wt_lines, wt_current, wt_out,
             wt_first>>

renderVars == <<fs_missing, fs_corrupt, tpl_png, files, TICK_ICON, r_pc, r_at, r_tpl, r_job, r_bg,
                r_data, r_canvas, r_geom, r_fonts, r_trace, r_created, r_ret, r_exc>>

marketVars == <<mt_pc, mt_mode, mt_data, mt_reply, mt_result, mt_exc>>

loaderVars == <<ld>>

layoutVars == <<ly_pc, ly_tpl, ly_items, ly_i, ly_y, ly_drawn>>

blogVars == <<bl_pc, bl_variant, bl_length, bl_max, bl_text, bl_words, bl_attempts,
              bl_counts, bl_ret, bl_exc>>

endpointVars == <<ep_pc, ep_body, ep_topic, ep_keywords, ep_called, ep_openai,
                  ep_content, ep_response>>

mainVars == <<mn_pc, mn_script, mn_argv, mn_at, mn_exc, mn_original, sys_stdout,
              real_stdout, real_stderr>>

requestVars == <<bg_file, rq_pc, rq_mock, rq_bg, rq_fn, rq_read, rq_response>>

serviceVars == <<blogVars, endpointVars, mainVars, requestVars>>

posterVars == <<selectorVars, amenityVars, wrapVars, renderVars, marketVars,
                loaderVars, layoutVars>>

vars == <<TEMPLATES, TEMPLATE_ALIASES, TEMPLATE_LIST, picks, sel_ret, sel_log,
          am_pc, am_items, am_i, am_x, am_y, am_placed,
          wt_pc, wt_text, wt_max, wt_words, wt_i, wt_lines, wt_current, wt_out,
          wt_first,
          fs_missing, fs_corrupt, tpl_png, files, TICK_ICON, r_pc, r_at, r_tpl, r_job, r_bg,
          r_data, r_canvas, r_geom, r_fonts, r_trace, r_created, r_ret, r_exc,
          mt_pc, mt_mode, mt_data, mt_reply, mt_result, mt_exc,
          ld, ly_pc, ly_tpl, ly_items, ly_i, ly_y, ly_drawn,
          bl_pc, bl_variant, bl_length, bl_max, bl_text, bl_words, bl_attempts,
          bl_counts, bl_ret, bl_exc,
          ep_pc, ep_body, ep_topic, ep_keywords, ep_called, ep_openai,
          ep_content, ep_response,
          mn_pc, mn_script, mn_argv, mn_at, mn_exc, mn_original, sys_stdout,
          real_stdout, real_stderr,
          bg_file, rq_pc, rq_mock, rq_bg, rq_fn, rq_read, rq_response>>

\* Python's None, and a key that a dict does not hold.
None == "<None>"

(***************************************************************************)
(* app/template_selector.py                                                *)
(***************************************************************************)

\* How many (id, function) observations the model keeps.
MaxPicks == 4

TemplatesInit ==
    [id \in {"classic", "modern", "minimal", "luxury"} |->
        CASE id = "classic" ->
                [render |-> "template1.render", name |-> "Classic Elegant",
                 description |-> "Timeless design with gradient overlay and ribbon CTA",
                 preview_color |-> "#E63946"]
          [] id = "modern" ->
                [render |-> "template2.render", name |-> "Modern Bold",
                 description |-> "Contemporary layout with bold typography",
                 preview_color |-> "#3B82F6"]
          [] id = "minimal" ->
                [render |-> "template3.render", name |-> "Minimal Clean",
                 description |-> "Clean minimalist design with focus on visuals",
                 preview_color |-> "#10B981"]
          [] id = "luxury" ->
                [render |-> "template4.render", name |-> "Premium Luxury",
                 description |-> "High-end luxury aesthetic with golden accents",
                 preview_color |-> "#F59E0B"]]

TemplateAliasesInit ==
    [a \in {"template1", "template2", "template3", "template4"} |->
        CASE a = "template1" -> "classic"
          [] a = "template2" -> "modern"
          [] a = "template3" -> "minimal"
          [] a = "template4" -> "luxury"]

\* list(TEMPLATES.values()): the values in the dict's insertion order.
TemplateListInit ==
    << TemplatesInit["classic"], TemplatesInit["modern"],
       TemplatesInit["minimal"], TemplatesInit["luxury"] >>

\* The template_id arguments tried: the eight known identifiers, None, the
\* sentinel, the empty string and strings that are in neither table.
TemplateIds ==
    { "classic", "modern", "minimal", "luxury",
      "template1", "template2", "template3", "template4",
      None, "random", "", "Classic", "template5" }

\* Python truthiness of `template_id`: None and "" are falsy.
Truthy(template_id) == template_id # None /\ template_id # ""

\* dict.get(key, default)
DictGet(d, key, default) == IF key \in DOMAIN d THEN d[key] ELSE default

\* A plausible slip: the alias table is not consulted.
pick_template_noalias(template_id, choice) ==
    IF Truthy(template_id) /\ template_id # "random" /\ template_id \in DOMAIN TEMPLATES
    THEN TEMPLATES[template_id].render
    ELSE TEMPLATE_LIST[choice].render

\* A plausible slip: an unrecognized identifier is looked up without the
\* membership test and raises.
pick_template_strict(template_id, choice) ==
    IF Truthy(template_id) /\ template_id # "random"
    THEN LET resolved_id == DictGet(TEMPLATE_ALIASES, template_id, template_id)
         IN  IF resolved_id \in DOMAIN TEMPLATES
             THEN TEMPLATES[resolved_id].render
             ELSE "raise KeyError"
    ELSE TEMPLATE_LIST[choice].render

\* pick_template(template_id); `choice` is the index random.choice draws.
pick_template(template_id, choice) ==
    LET resolved_id == DictGet(TEMPLATE_ALIASES, template_id, template_id)
    IN  IF Truthy(template_id) /\ template_id # "random"
           /\ resolved_id \in DOMAIN TEMPLATES
        THEN TEMPLATES[resolved_id].render
        ELSE TEMPLATE_LIST[choice].render

\* One call of pick_template: the registry is read, never written.
PickTemplate(template_id) ==
    /\ Cardinality(picks) < MaxPicks
    /\ \E choice \in 1..Len(TEMPLATE_LIST) :
          picks' = picks \cup
                     { [id |-> template_id, fn |-> pick_template(template_id, choice)] }
    /\ UNCHANGED <<TEMPLATES, TEMPLATE_ALIASES, TEMPLATE_LIST, sel_ret, sel_log>>
    /\ UNCHANGED <<amenityVars, wrapVars, renderVars, marketVars,
                   loaderVars, layoutVars, serviceVars>>

\* How many calls of the selector functions one run of the registry makes.
MaxCalls == 3

\* The keys of TEMPLATES in insertion order, as TEMPLATES.items() yields them.
TemplateOrder == << "classic", "modern", "minimal", "luxury" >>

\* get_template_info(template_id): a new dict of "id" and the entry's items,
\* or None.
get_template_info(template_id) ==
    IF template_id \in DOMAIN TEMPLATES
    THEN [kind |-> "info",
          value |-> [id |-> template_id,
                     render |-> TEMPLATES[template_id].render,
                     name |-> TEMPLATES[template_id].name,
                     description |-> TEMPLATES[template_id].description,
                     preview_color |-> TEMPLATES[template_id].preview_color]]
    ELSE [kind |-> "none", value |-> None]

\* list_templates(): one new dict per entry, without the render function.
list_templates ==
    [kind |-> "list",
     value |-> [k \in 1..Len(TemplateOrder) |->
                   [id |-> TemplateOrder[k],
                    name |-> TEMPLATES[TemplateOrder[k]].name,
                    description |-> TEMPLATES[TemplateOrder[k]].description,
                    preview_color |-> TEMPLATES[TemplateOrder[k]].preview_color]]]

\* A plausible slip: "id" is stored in the registry's own entry, which is
\* returned.
TemplatesAfterInfo_inPlace(template_id) ==
    IF template_id \in DOMAIN TEMPLATES
    THEN [TEMPLATES EXCEPT ![template_id] =
             [id |-> template_id, render |-> @.render, name |-> @.name,
              description |-> @.description, preview_color |-> @.preview_color]]
    ELSE TEMPLATES

\* TEMPLATES after get_template_info(template_id): {"id": ..., **entry} builds
\* a new dict and no statement of the function assigns to the registry.
TemplatesAfterInfo(template_id) == TEMPLATES

\* One call of pick_template in a run of the registry.
CallPickTemplate(template_id) ==
    /\ Len(sel_log) < MaxCalls
    /\ \E choice \in 1..Len(TEMPLATE_LIST) :
          sel_ret' = [kind |-> "function", value |-> pick_template(template_id, choice)]
    /\ sel_log' = Append(sel_log, "pick_template")
    /\ UNCHANGED <<TEMPLATES, TEMPLATE_ALIASES, TEMPLATE_LIST, picks>>
    /\ UNCHANGED <<amenityVars, wrapVars, renderVars, marketVars,
                   loaderVars, layoutVars, serviceVars>>

\* One call of get_template_info.
CallGetTemplateInfo(template_id) ==
    /\ Len(sel_log) < MaxCalls
    /\ sel_ret' = get_template_info(template_id)
    /\ sel_log' = Append(sel_log, "get_template_info")
    /\ TEMPLATES' = TemplatesAfterInfo(template_id)
    /\ UNCHANGED <<TEMPLATE_ALIASES, TEMPLATE_LIST, picks>>
    /\ UNCHANGED <<amenityVars, wrapVars, renderVars, marketVars,
                   loaderVars, layoutVars, serviceVars>>

\* One call of list_templates.
CallListTemplates ==
    /\ Len(sel_log) < MaxCalls
    /\ sel_ret' = list_templates
    /\ sel_log' = Append(sel_log, "list_templates")
    /\ UNCHANGED <<TEMPLATES, TEMPLATE_ALIASES, TEMPLATE_LIST, picks>>
    /\ UNCHANGED <<amenityVars, wrapVars, renderVars, marketVars,
                   loaderVars, layoutVars, serviceVars>>

InitSelector ==
    /\ TEMPLATES = TemplatesInit
    /\ TEMPLATE_ALIASES = TemplateAliasesInit
    /\ TEMPLATE_LIST = TemplateListInit
    /\ picks = {}
    /\ sel_ret = [kind |-> "nothing", value |-> None]
    /\ sel_log = << >>

NextSelector == \E template_id \in TemplateIds : PickTemplate(template_id)

NextRegistry ==
    \/ \E template_id \in TemplateIds : CallPickTemplate(template_id)
    \/ \E template_id \in TemplateIds : CallGetTemplateInfo(template_id)
    \/ CallListTemplates

(***************************************************************************)
(* app/templates/template1.py: draw_amenities_horizontal_wrapped           *)
(***************************************************************************)

\* The longest amenity list tried.
MaxAmenities == 4

\* The amenity strings tried, and what draw.textlength(item, font=font)
\* measures for each (the font's metrics are Pillow's, not the repository's:
\* the values are picked so that two items fill a row exactly, overflow it
\* by one pixel, and so that one item alone is wider than the row).
AmenityTexts == { "Gym", "Infinity Pool", "Rooftop Garden", "Olympic Size Swimming Pool" }

TextLength(item) ==
    CASE item = "Gym" -> 50
      [] item = "Infinity Pool" -> 350
      [] item = "Rooftop Garden" -> 351
      [] item = "Olympic Size Swimming Pool" -> 800

\* The arguments of the call in render, and the defaults of the signature.
AmenStartX == 120
AmenStartY == 1000
AmenMaxWidth == 840
IconSize == 24
IconGap == 16
RowGap == 12
TrailingPad == 30
AmenityFontSize == 36

\* total_width = icon_size + gap + text_width + 30
TotalWidth(item, icon_size, gap) == icon_size + gap + TextLength(item) + TrailingPad

\* A plausible slip: only the text, not the icon and the padding, is tested.
NeedsWrap_textOnly(x, total_width, start_x, max_width) ==
    x + total_width - (IconSize + IconGap + TrailingPad) > start_x + max_width

\* if x + total_width > start_x + max_width
NeedsWrap(x, total_width, start_x, max_width) ==
    x + total_width > start_x + max_width

\* The call: x, y = start_x, start_y
AmenCall(items) ==
    /\ am_pc = "idle"
    /\ am_pc' = "loop"
    /\ am_items' = items
    /\ am_i' = 1
    /\ am_x' = AmenStartX
    /\ am_y' = AmenStartY
    /\ am_placed' = << >>
    /\ UNCHANGED <<selectorVars, wrapVars, renderVars, marketVars,
                   loaderVars, layoutVars, serviceVars>>

\* A plausible slip: on a wrap the row advances and x is not reset.
AmenStep_noReset ==
    /\ am_pc = "loop"
    /\ am_i <= Len(am_items)
    /\ LET item == am_items[am_i]
           total_width == TotalWidth(item, IconSize, IconGap)
           wrap == NeedsWrap(am_x, total_width, AmenStartX, AmenMaxWidth)
           x == am_x
           y == IF wrap THEN am_y + AmenityFontSize + RowGap ELSE am_y
       IN  /\ am_placed' = Append(am_placed,
                  [ index |-> am_i, item |-> item, total_width |-> total_width,
                    cursor_x |-> am_x, cursor_y |-> am_y, wrapped |-> wrap,
                    icon_at |-> <<x, y + 6>>,
                    text_at |-> <<x + IconSize + IconGap, y>> ])
           /\ am_x' = x + total_width
           /\ am_y' = y
    /\ am_i' = am_i + 1
    /\ UNCHANGED <<am_pc, am_items>>
    /\ UNCHANGED <<selectorVars, wrapVars, renderVars, marketVars,
                   loaderVars, layoutVars, serviceVars>>

\* One iteration of `for item in items`.
AmenStep ==
    /\ am_pc = "loop"
    /\ am_i <= Len(am_items)
    /\ LET item == am_items[am_i]
           total_width == TotalWidth(item, IconSize, IconGap)
           wrap == NeedsWrap(am_x, total_width, AmenStartX, AmenMaxWidth)
           x == IF wrap THEN AmenStartX ELSE am_x
           y == IF wrap THEN am_y + AmenityFontSize + RowGap ELSE am_y
       IN  /\ am_placed' = Append(am_placed,
                  [ index |-> am_i, item |-> item, total_width |-> total_width,
                    cursor_x |-> am_x, cursor_y |-> am_y, wrapped |-> wrap,
                    icon_at |-> <<x, y + 6>>,
                    text_at |-> <<x + IconSize + IconGap, y>> ])
           /\ am_x' = x + total_width
           /\ am_y' = y
    /\ am_i' = am_i + 1
    /\ UNCHANGED <<am_pc, am_items>>
    /\ UNCHANGED <<selectorVars, wrapVars, renderVars, marketVars,
                   loaderVars, layoutVars, serviceVars>>

\* The loop is exhausted and the function returns.
AmenReturn ==
    /\ am_pc = "loop"
    /\ am_i > Len(am_items)
    /\ am_pc' = "done"
    /\ UNCHANGED <<am_items, am_i, am_x, am_y, am_placed>>
    /\ UNCHANGED <<selectorVars, wrapVars, renderVars, marketVars,
                   loaderVars, layoutVars, serviceVars>>

RECURSIVE SeqsUpTo(_, _)
\* All sequences over S of length at most n.
SeqsUpTo(S, n) ==
    IF n = 0 THEN { << >> }
    ELSE LET shorter == SeqsUpTo(S, n - 1)
         IN  shorter \cup { Append(s, e) : s \in shorter, e \in S }

InitAmenities ==
    /\ am_pc = "idle"
    /\ am_items = << >>
    /\ am_i = 0
    /\ am_x = 0
    /\ am_y = 0
    /\ am_placed = << >>

NextAmenities ==
    \/ \E items \in SeqsUpTo(AmenityTexts, MaxAmenities) : AmenCall(items)
    \/ AmenStep
    \/ AmenReturn

(***************************************************************************)
(* app/templates/template4.py: get_wrapped_text                            *)
(***************************************************************************)

\* The longest text tried, in characters.
MaxTextLen == 5

\* The characters of the texts tried: a narrow and a wide letter and two
\* kinds of whitespace.
TextChars == { "i", "W", " ", "\n" }

Whitespace == { " ", "\n" }

\* The advance font.getlength gives each character (Pillow's metrics, not the
\* repository's; kerning is left out, so a string measures the sum).
CharWidth(c) ==
    CASE c = "i" -> 1
      [] c = "W" -> 4
      [] c = " " -> 1
      [] c = "\n" -> 0

\* The max_pixel_width values tried: "i i" fills 3 exactly and "W" is wider
\* than 3 alone; "W i" fills 6 exactly and "WW" is wider than 6 alone.
WrapWidths == { 3, 6 }

RECURSIVE GetLength(_)
\* font.getlength(s)
GetLength(s) == IF s = << >> THEN 0 ELSE CharWidth(Head(s)) + GetLength(Tail(s))

RECURSIVE SplitFrom(_, _, _)
\* str.split() from character k on; `word` holds the characters of the word
\* being read.
SplitFrom(s, k, word) ==
    IF k > Len(s)
    THEN IF word = << >> THEN << >> ELSE << word >>
    ELSE IF s[k] \in Whitespace
         THEN IF word = << >>
              THEN SplitFrom(s, k + 1, << >>)
              ELSE << word >> \o SplitFrom(s, k + 1, << >>)
         ELSE SplitFrom(s, k + 1, Append(word, s[k]))

\* text.split(): the maximal runs of non-whitespace characters.
Split(s) == SplitFrom(s, 1, << >>)

RECURSIVE Join(_, _)
\* sep.join(parts)
Join(parts, sep) ==
    IF parts = << >> THEN << >>
    ELSE IF Len(parts) = 1 THEN parts[1]
    ELSE parts[1] \o sep \o Join(Tail(parts), sep)

\* A plausible slip: the word alone is measured, not the line with the word.
TestString_wordOnly(current, word) == word

\* test = " ".join(current + [word])
TestString(current, word) == Join(Append(current, word), << " " >>)

\* A plausible slip: a line that fills the width exactly is broken.
Fits_strict(width, max_pixel_width) == width < max_pixel_width

\* if width <= max_pixel_width
Fits(width, max_pixel_width) == width <= max_pixel_width

\* The call: words = text.split(); lines, current = [], []
WrapCall(text, max_pixel_width) ==
    /\ wt_pc = "idle"
    /\ wt_pc' = "loop"
    /\ wt_text' = text
    /\ wt_max' = max_pixel_width
    /\ wt_words' = Split(text)
    /\ wt_i' = 1
    /\ wt_lines' = << >>
    /\ wt_current' = << >>
    /\ wt_out' = << >>
    /\ UNCHANGED wt_first
    /\ UNCHANGED <<selectorVars, amenityVars, renderVars, marketVars,
                   loaderVars, layoutVars, serviceVars>>

\* A second call on the string the first call returned, with the same font
\* and max_pixel_width.
WrapAgain ==
    /\ wt_pc = "done"
    /\ ~ wt_first.set
    /\ wt_first' = [ set |-> TRUE, text |-> wt_text, lines |-> wt_lines,
                     out |-> wt_out ]
    /\ wt_pc' = "loop"
    /\ wt_text' = wt_out
    /\ wt_max' = wt_max
    /\ wt_words' = Split(wt_out)
    /\ wt_i' = 1
    /\ wt_lines' = << >>
    /\ wt_current' = << >>
    /\ wt_out' = << >>
    /\ UNCHANGED <<selectorVars, amenityVars, renderVars, marketVars,
                   loaderVars, layoutVars, serviceVars>>

\* One iteration of `for word in words`.
WrapStep ==
    /\ wt_pc = "loop"
    /\ wt_i <= Len(wt_words)
    /\ LET word == wt_words[wt_i]
           test == TestString(wt_current, word)
           width == GetLength(test)
       IN  IF Fits(width, wt_max)
           THEN /\ wt_current' = Append(wt_current, word)
                /\ wt_lines' = wt_lines
           ELSE /\ wt_lines' = Append(wt_lines, Join(wt_current, << " " >>))
                /\ wt_current' = << word >>
    /\ wt_i' = wt_i + 1
    /\ UNCHANGED <<wt_pc, wt_text, wt_max, wt_words, wt_out, wt_first>>
    /\ UNCHANGED <<selectorVars, amenityVars, renderVars, marketVars,
                   loaderVars, layoutVars, serviceVars>>

\* A plausible slip: the words still in `current` when the loop ends are not
\* appended as the last line.
WrapReturn_noFlush ==
    /\ wt_pc = "loop"
    /\ wt_i > Len(wt_words)
    /\ LET lines == wt_lines
       IN  /\ wt_lines' = lines
           /\ wt_out' = Join(lines, << "\n" >>)
    /\ wt_pc' = "done"
    /\ UNCHANGED <<wt_text, wt_max, wt_words, wt_i, wt_current, wt_first>>
    /\ UNCHANGED <<selectorVars, amenityVars, renderVars, marketVars,
                   loaderVars, layoutVars, serviceVars>>

\* After the loop: if current: lines.append(" ".join(current));
\* return "\n".join(lines)
WrapReturn ==
    /\ wt_pc = "loop"
    /\ wt_i > Len(wt_words)
    /\ LET lines == IF wt_current # << >>
                    THEN Append(wt_lines, Join(wt_current, << " " >>))
                    ELSE wt_lines
       IN  /\ wt_lines' = lines
           /\ wt_out' = Join(lines, << "\n" >>)
    /\ wt_pc' = "done"
    /\ UNCHANGED <<wt_text, wt_max, wt_words, wt_i, wt_current, wt_first>>
    /\ UNCHANGED <<selectorVars, amenityVars, renderVars, marketVars,
                   loaderVars, layoutVars, serviceVars>>

InitWrap ==
    /\ wt_pc = "idle"
    /\ wt_text = << >>
    /\ wt_max = 0
    /\ wt_words = << >>
    /\ wt_i = 0
    /\ wt_lines = << >>
    /\ wt_current = << >>
    /\ wt_out = << >>
    /\ wt_first = [ set |-> FALSE, text |-> << >>, lines |-> << >>, out |-> << >> ]

NextWrap ==
    \/ \E text \in SeqsUpTo(TextChars, MaxTextLen), max_pixel_width \in WrapWidths :
          WrapCall(text, max_pixel_width)
    \/ WrapAgain
    \/ WrapStep
    \/ WrapReturn

(***************************************************************************)
(* app/templates/template1.py .. template4.py: render                      *)
(***************************************************************************)

\* The render invocations that may be in progress at once.
Procs == { "p1", "p2" }

\* The job_id arguments tried.
JobIds == { "j1", "j2" }

\* The job_id under which an earlier run may have left a poster: the one the
\* __main__ blocks pass on every run.
EarlierJobIds == { "j1" }

\* How many asset files may be missing from the filesystem.
MaxMissing == 1

\* A path that holds no file.
Absent == [state |-> "absent"]

\* What Image.open(bg_path) may find.
BgKinds == { "ok", "missing", "corrupt" }

\* The values of data.get("logo_path") tried: no key or None, the empty
\* string, and a path.
LogoPaths == { None, "", "uploads/logo.png" }

FontFiles ==
    { "fonts/Cinzel-ExtraBold.ttf", "fonts/Montserrat-Regular.ttf",
      "fonts/Montserrat-Bold.ttf", "fonts/Roboto_Condensed-SemiBold.ttf",
      "fonts/Oswald-Bold.ttf", "fonts/Montserrat-SemiBold.ttf",
      "fonts/DMSerifDisplay-Italic.ttf", "fonts/Inter-Medium.ttf" }

IconFiles == { "assets/tick.png", "assets/call.png", "assets/tick2.png" }

LogoFiles == { "uploads/logo.png" }

\* The pre-built background template PNG that template 4 composites.
TemplateFiles == { "templates/template2.png" }

AssetFiles == FontFiles \cup IconFiles \cup LogoFiles \cup TemplateFiles

\* os.path.exists(path)
Exists(path) == path \notin fs_missing

\* The file at path is there and holds what its name promises.
Readable(path) == Exists(path) /\ path \notin fs_corrupt

\* Nothing was returned: the function returned None or raised.
NoImage == [kind |-> "none"]

\* def load_font(path, size): ImageFont.truetype(path, size), and
\* ImageFont.load_default() on any Exception (a missing or undecodable file,
\* a size that is not positive).
load_font(path, size) ==
    IF Truthy(path) /\ path \in FontFiles /\ Readable(path) /\ size > 0
    THEN [ret |-> [kind |-> "truetype", file |-> path, size |-> size], exc |-> None]
    ELSE [ret |-> [kind |-> "default"], exc |-> None]

\* def load_icon(path, size): None when the path is falsy or names nothing;
\* otherwise Image.open(path).convert("RGBA").resize(size), with no handler.
load_icon(path) ==
    IF ~Truthy(path) \/ ~Exists(path)
    THEN [ret |-> NoImage, exc |-> None]
    ELSE IF path \in fs_corrupt
         THEN [ret |-> NoImage, exc |-> "UnidentifiedImageError"]
         ELSE [ret |-> [kind |-> "image", file |-> path], exc |-> None]

\* A plausible slip: the logo is opened without the test that it exists.
load_logo_noCheck(path) ==
    IF ~Truthy(path)
    THEN [ret |-> NoImage, exc |-> None]
    ELSE IF ~Exists(path)
         THEN [ret |-> NoImage, exc |-> "FileNotFoundError"]
         ELSE IF path \in fs_corrupt
              THEN [ret |-> NoImage, exc |-> "UnidentifiedImageError"]
              ELSE [ret |-> [kind |-> "image", file |-> path], exc |-> None]

\* def load_logo(path, size): the same body as load_icon.
load_logo(path) ==
    IF ~Truthy(path) \/ ~Exists(path)
    THEN [ret |-> NoImage, exc |-> None]
    ELSE IF path \in fs_corrupt
         THEN [ret |-> NoImage, exc |-> "UnidentifiedImageError"]
         ELSE [ret |-> [kind |-> "image", file |-> path], exc |-> None]

\* A plausible slip: the output file is not named after the job.
OutputPath_fixed(job_id) == "outputs/poster.png"

\* os.path.join(OUTPUT_FOLDER, f"poster_{job_id}.png")
OutputPath(job_id) == "outputs/poster_" \o job_id \o ".png"

OutputPaths == { OutputPath(j) : j \in JobIds } \cup { OutputPath_fixed("") }

\* The kinds of stage of a render, each with the lines it stands for.
StDraw(stage, block) == [op |-> "draw", stage |-> stage, block |-> block]
StSetup(stage) == [op |-> "setup", stage |-> stage, block |-> "setup"]
StOpenBg == [op |-> "open_bg", stage |-> "open_bg", block |-> "setup"]
StOpenAsset(stage, path) ==
    [op |-> "open_asset", stage |-> stage, block |-> "setup", asset |-> path]
StFonts(paths) == [op |-> "load_fonts", stage |-> "load_fonts", block |-> "setup", fonts |-> paths]
StIcon(stage, block, path) ==
    [op |-> "paste_icon", stage |-> stage, block |-> block, asset |-> path]
StLogo(block) == [op |-> "paste_logo", stage |-> "logo", block |-> block]
StSaveOpen == [op |-> "save_open", stage |-> "save", block |-> "save"]
StSaveWrite == [op |-> "save_write", stage |-> "save_write", block |-> "save"]
StReturn == [op |-> "return", stage |-> "return", block |-> "return"]

\* template1.render, statement by statement.
Template1Stages ==
    << StSetup("new_canvas"),                         \* 123
       StOpenBg,                                      \* 124
       StDraw("paste_bg", "background"),              \* 125
       StDraw("bottom_gradient", "overlay"),          \* 127
       StFonts({ "fonts/Cinzel-ExtraBold.ttf", "fonts/Montserrat-Regular.ttf",
                 "fonts/Montserrat-Bold.ttf", "fonts/Roboto_Condensed-SemiBold.ttf",
                 "fonts/Oswald-Bold.ttf" }),          \* 131-148
       StDraw("title", "header"),                     \* 151
       StDraw("subline", "header"),                   \* 152-158
       StDraw("price", "price"),                      \* 160-161
       StDraw("cta_ribbon", "cta"),                   \* 164-191
       StDraw("amenities", "amenity"),                \* 194-202
       StDraw("footer_bar", "footer"),                \* 205-206
       StIcon("call_icon", "footer", "assets/call.png"), \* 208-212
       StDraw("phone", "footer"),                     \* 214
       StSaveOpen, StSaveWrite,                       \* 217-221
       StReturn >>                                    \* 223

\* template2.render, statement by statement.
Template2Stages ==
    << StOpenBg,                                      \* 38
       StDraw("paste_bg", "background"),              \* 39: canvas = base.copy()
       StFonts({ "fonts/Montserrat-SemiBold.ttf", "fonts/Montserrat-Bold.ttf" }), \* 45-56
       StOpenAsset("load_tick", "assets/tick2.png"),  \* 61-65
       StDraw("title", "header"),                     \* 70
       StDraw("divider", "header"),                   \* 71
       StDraw("glass_card", "price"),                 \* 76-95
       StDraw("glow", "price"),                       \* 97-137
       StDraw("price", "price"),                      \* 142-148
       StDraw("prelaunch_tag", "price"),              \* 153-164
       StDraw("amenities", "amenity"),                \* 169-188
       StDraw("cta_button", "cta"),                   \* 193-221
       StDraw("footer_brand", "footer"),              \* 226-232
       StSaveOpen, StSaveWrite,                       \* 234-238
       StReturn >>                                    \* 240

\* A plausible slip: the ribbon is drawn before the amenity block.
Template3Stages_ctaFirst ==
    << StSetup("new_canvas"), StOpenBg, StDraw("paste_bg", "background"),
       StFonts({ "fonts/Cinzel-ExtraBold.ttf", "fonts/Montserrat-Regular.ttf",
                 "fonts/Roboto_Condensed-SemiBold.ttf", "fonts/Montserrat-Bold.ttf",
                 "fonts/Oswald-Bold.ttf" }),
       StDraw("title", "header"), StDraw("subline", "header"),
       StDraw("info_card", "price"),
       StDraw("cta_ribbon", "cta"),
       StDraw("amenities", "amenity"),
       StDraw("footer_bar", "footer"), StDraw("phone", "footer"),
       StIcon("call_icon", "footer", "assets/call.png"),
       StLogo("footer"),
       StSaveOpen, StSaveWrite, StReturn >>

\* template3.render, statement by statement.
Template3Stages ==
    << StSetup("new_canvas"),                         \* 99
       StOpenBg,                                      \* 100
       StDraw("paste_bg", "background"),              \* 101
       StFonts({ "fonts/Cinzel-ExtraBold.ttf", "fonts/Montserrat-Regular.ttf",
                 "fonts/Roboto_Condensed-SemiBold.ttf", "fonts/Montserrat-Bold.ttf",
                 "fonts/Oswald-Bold.ttf" }),          \* 106-120
       StDraw("title", "header"),                     \* 123-131
       StDraw("subline", "header"),                   \* 133-141
       StDraw("info_card", "price"),                  \* 144-158
       StDraw("amenities", "amenity"),                \* 160-167
       StDraw("cta_ribbon", "cta"),                   \* 170-205
       StDraw("footer_bar", "footer"),                \* 208-209
       StDraw("phone", "footer"),                     \* 211
       StIcon("call_icon", "footer", "assets/call.png"), \* 213-218
       StLogo("footer"),                              \* 220-222
       StSaveOpen, StSaveWrite,                       \* 225-229
       StReturn >>                                    \* 231

\* template4.render, statement by statement.
Template4Stages ==
    << StOpenAsset("open_template", "templates/template2.png"), \* 71-72
       StOpenBg,                                      \* 74
       StSetup("new_canvas"),                         \* 76-77
       StDraw("paste_bg", "background"),              \* 82-83
       StDraw("gradient", "overlay"),                 \* 85-98
       StDraw("template_overlay", "overlay"),         \* 99
       StFonts({ "fonts/Cinzel-ExtraBold.ttf", "fonts/DMSerifDisplay-Italic.ttf",
                 "fonts/Inter-Medium.ttf", "fonts/Montserrat-SemiBold.ttf",
                 "fonts/Montserrat-Bold.ttf" }),      \* 106-120
       StLogo("footer"),                              \* 128-130
       StDraw("title", "header"),                     \* 135-138
       StDraw("subline", "header"),                   \* 143-159
       StDraw("subline2", "price"),                   \* 164-173
       StDraw("amenities", "amenity"),                \* 178-200
       StDraw("phone", "footer"),                     \* 205
       StIcon("call_icon", "footer", "assets/call.png"), \* 207-211
       StSaveOpen, StSaveWrite,                       \* 216-220
       StReturn >>                                    \* 222

Templates == 1..4

Stages(tpl) ==
    CASE tpl = 1 -> Template1Stages
      [] tpl = 2 -> Template2Stages
      [] tpl = 3 -> Template3Stages
      [] tpl = 4 -> Template4Stages

\* The stage invocation p is about to run.
Stage(p) == Stages(r_tpl[p])[r_at[p]]

AtOp(p, op) == r_pc[p] = "running" /\ Stage(p).op = op

AllIdle == \A p \in Procs : r_pc[p] = "idle"

\* A layer of the canvas: the stage that drew it and the block it belongs to.
Layer(st) == [stage |-> st.stage, block |-> st.block]

\* The stage ran and the next one follows.
Advance(p, layers) ==
    /\ r_at' = [r_at EXCEPT ![p] = @ + 1]
    /\ r_pc' = r_pc
    /\ r_trace' = [r_trace EXCEPT ![p] = Append(@, Stage(p).stage)]
    /\ r_canvas' = [r_canvas EXCEPT ![p] = @ \o layers]

\* An exception leaves render: nothing in render catches it.
Raise(p, type, path) ==
    /\ r_pc' = [r_pc EXCEPT ![p] = "raised"]
    /\ r_at' = r_at
    /\ r_exc' = [r_exc EXCEPT ![p] = [type |-> type, path |-> path, stage |-> Stage(p).stage]]
    /\ r_trace' = [r_trace EXCEPT ![p] = Append(@, Stage(p).stage)]

\* The module-level CANVAS_SIZE of each template.
CANVAS_SIZE(tpl) == IF tpl = 4 THEN <<1080, 1920>> ELSE <<1080, 1350>>

\* The dimensions of the background images tried: the feed format itself, a
\* landscape photograph and a small square.
BgSizes == { <<1080, 1350>>, <<1920, 1080>>, <<640, 640>> }

\* The dimensions templates/template2.png may have: the story format, and
\* the feed format of the other templates.
TemplatePngSizes == { <<1080, 1920>>, <<1080, 1350>> }

\* An image that has not been made yet.
NoSize == <<0, 0>>

\* The height template 4 stretches its background to.
Template4BgHeight == 1200

\* A plausible slip: the background is opened and not resized.
OpenedBgSize_asIs(p) == r_geom[p].bgdim

\* bg = Image.open(bg_path).convert("RGBA").resize(CANVAS_SIZE) in templates
\* 1, 2 and 3; template 4 opens it and resizes later.
OpenedBgSize(p) ==
    IF r_tpl[p] = 4 THEN r_geom[p].bgdim ELSE CANVAS_SIZE(r_tpl[p])

\* Image.new("RGBA", CANVAS_SIZE) in templates 1 and 3;
\* W, H = template.size; Image.new("RGBA", (W, H), ...) in template 4.
NewCanvasSize(p) ==
    IF r_tpl[p] = 4 THEN r_geom[p].template ELSE CANVAS_SIZE(r_tpl[p])

\* canvas.paste(bg, (0, 0)) in templates 1 and 3, canvas = base.copy() in
\* template 2, and in template 4
\* bg_resized = bg.resize((W, 1200), ...); canvas.paste(bg_resized, (0, 0)).
PastedBg(p) ==
    IF r_tpl[p] = 4
    THEN [size |-> <<r_geom[p].canvas[1], Template4BgHeight>>, at |-> <<0, 0>>]
    ELSE [size |-> r_geom[p].bg, at |-> <<0, 0>>]

\* The canvas once the background is on it: template 2's canvas is the copy.
CanvasAfterPaste(p) ==
    IF r_tpl[p] = 2 THEN r_geom[p].bg ELSE r_geom[p].canvas

\* No crop has been taken.
NoCrop == [from |-> "none", box |-> <<0, 0, 0, 0>>, layers |-> << >>, blur |-> 0]

\* template2: (card_x, card_y, card_x + card_w, card_y + card_h) with
\* card_w, card_h = 820, 190, card_x = (1080 - 820) // 2 and card_y = 880.
GlassBox == << (1080 - 820) \div 2, 880, (1080 - 820) \div 2 + 820, 880 + 190 >>

\* A plausible slip: the panel is cropped from the canvas being drawn on.
GlassCrop_fromCanvas(p) ==
    [from |-> "canvas", box |-> GlassBox, layers |-> r_canvas[p], blur |-> 10]

\* template2: blurred_bg = base.crop((card_x, ...)).filter(GaussianBlur(10)).
\* base is bound once, at the open, and every draw goes to canvas, its copy.
GlassCrop(p) ==
    [from |-> "base", box |-> GlassBox, layers |-> r_geom[p].base, blur |-> 10]

\* render(bg_path, content, data, job_id) is called; bg_size is the size of
\* the image at bg_path.
RenderCall(p, tpl, job_id, bg, logo_path, bg_size) ==
    /\ r_pc[p] = "idle"
    /\ r_pc' = [r_pc EXCEPT ![p] = "running"]
    /\ r_at' = [r_at EXCEPT ![p] = 1]
    /\ r_tpl' = [r_tpl EXCEPT ![p] = tpl]
    /\ r_job' = [r_job EXCEPT ![p] = job_id]
    /\ r_bg' = [r_bg EXCEPT ![p] = bg]
    /\ r_data' = [r_data EXCEPT ![p] = [logo_path |-> logo_path]]
    /\ r_geom' = [r_geom EXCEPT ![p] =
                     [ bgdim |-> bg_size, bg |-> NoSize, template |-> NoSize,
                       canvas |-> NoSize, paste |-> [size |-> NoSize, at |-> <<0, 0>>],
                       base |-> << >>, crop |-> NoCrop ]]
    /\ UNCHANGED <<fs_missing, files, TICK_ICON, r_canvas, r_fonts, r_trace,
                   r_created, r_ret, r_exc>>
    /\ UNCHANGED <<fs_corrupt, tpl_png>>
    /\ UNCHANGED <<selectorVars, amenityVars, wrapVars, marketVars,
                   loaderVars, layoutVars, serviceVars>>

\* Image.new, ImageDraw.Draw and the like: nothing is read from the disk.
RenderSetup(p) ==
    /\ AtOp(p, "setup")
    /\ Advance(p, << >>)
    /\ r_geom' = [r_geom EXCEPT ![p].canvas =
                     IF Stage(p).stage = "new_canvas" THEN NewCanvasSize(p) ELSE @]
    /\ UNCHANGED <<fs_missing, files, TICK_ICON, r_tpl, r_job, r_bg, r_data, r_fonts,
                   r_created, r_ret, r_exc>>
    /\ UNCHANGED <<fs_corrupt, tpl_png>>
    /\ UNCHANGED <<selectorVars, amenityVars, wrapVars, marketVars,
                   loaderVars, layoutVars, serviceVars>>

\* Image.open(bg_path).convert("RGBA"): a missing or undecodable file raises.
RenderOpenBg(p) ==
    /\ AtOp(p, "open_bg")
    /\ CASE r_bg[p] = "ok" ->
                /\ Advance(p, << >>)
                /\ r_geom' = [r_geom EXCEPT ![p].bg = OpenedBgSize(p)]
                /\ UNCHANGED r_exc
         [] r_bg[p] = "missing" ->
                Raise(p, "FileNotFoundError", "bg_path") /\ UNCHANGED <<r_canvas, r_geom>>
         [] r_bg[p] = "corrupt" ->
                Raise(p, "UnidentifiedImageError", "bg_path") /\ UNCHANGED <<r_canvas, r_geom>>
    /\ UNCHANGED <<fs_missing, files, TICK_ICON, r_tpl, r_job, r_bg, r_data, r_fonts,
                   r_created, r_ret>>
    /\ UNCHANGED <<fs_corrupt, tpl_png>>
    /\ UNCHANGED <<selectorVars, amenityVars, wrapVars, marketVars,
                   loaderVars, layoutVars, serviceVars>>

\* Image.open(<asset>) with no test that the file exists.
RenderOpenAsset(p) ==
    /\ AtOp(p, "open_asset")
    /\ IF Readable(Stage(p).asset)
       THEN /\ Advance(p, << >>)
            /\ r_geom' = [r_geom EXCEPT ![p].template =
                             IF Stage(p).asset \in TemplateFiles THEN tpl_png ELSE @]
            /\ UNCHANGED r_exc
       ELSE /\ Raise(p, IF Exists(Stage(p).asset) THEN "UnidentifiedImageError"
                                                    ELSE "FileNotFoundError",
                       Stage(p).asset)
            /\ UNCHANGED <<r_canvas, r_geom>>
    /\ UNCHANGED <<fs_missing, files, TICK_ICON, r_tpl, r_job, r_bg, r_data, r_fonts,
                   r_created, r_ret>>
    /\ UNCHANGED <<fs_corrupt, tpl_png>>
    /\ UNCHANGED <<selectorVars, amenityVars, wrapVars, marketVars,
                   loaderVars, layoutVars, serviceVars>>

\* load_font for each font of the template: ImageFont.truetype, and
\* ImageFont.load_default() on any exception.
RenderLoadFonts(p) ==
    /\ AtOp(p, "load_fonts")
    /\ r_fonts' = [r_fonts EXCEPT ![p] =
                      { f \in Stage(p).fonts : load_font(f, 36).ret.kind = "default" }]
    /\ Advance(p, << >>)
    /\ UNCHANGED <<fs_missing, files, TICK_ICON, r_tpl, r_job, r_bg, r_data,
                   r_created, r_ret, r_exc>>
    /\ UNCHANGED <<fs_corrupt, tpl_png, r_geom>>
    /\ UNCHANGED <<selectorVars, amenityVars, wrapVars, marketVars,
                   loaderVars, layoutVars, serviceVars>>

\* A drawing statement: text, a shape, a paste of something built in memory.
RenderDraw(p) ==
    /\ AtOp(p, "draw")
    /\ Advance(p, << Layer(Stage(p)) >>)
    /\ r_geom' = CASE Stage(p).stage = "paste_bg" ->
                          [r_geom EXCEPT ![p].paste = PastedBg(p),
                                         ![p].canvas = CanvasAfterPaste(p),
                                         ![p].base = IF r_tpl[p] = 2
                                                     THEN << Layer(Stage(p)) >> ELSE @]
                    [] Stage(p).stage = "glass_card" ->
                          [r_geom EXCEPT ![p].crop = GlassCrop(p)]
                    [] OTHER -> r_geom
    /\ UNCHANGED <<fs_missing, files, TICK_ICON, r_tpl, r_job, r_bg, r_data, r_fonts,
                   r_created, r_ret, r_exc>>
    /\ UNCHANGED <<fs_corrupt, tpl_png>>
    /\ UNCHANGED <<selectorVars, amenityVars, wrapVars, marketVars,
                   loaderVars, layoutVars, serviceVars>>

\* A plausible slip: the icon is pasted only on a poster that is new.
RenderPasteIcon_ifNew(p) ==
    /\ AtOp(p, "paste_icon")
    /\ IF Exists(Stage(p).asset) /\ files[OutputPath(r_job[p])] = Absent
       THEN Advance(p, << Layer(Stage(p)) >>)
       ELSE Advance(p, << >>)
    /\ UNCHANGED <<fs_missing, files, TICK_ICON, r_tpl, r_job, r_bg, r_data, r_fonts,
                   r_created, r_ret, r_exc>>
    /\ UNCHANGED <<fs_corrupt, tpl_png, r_geom>>
    /\ UNCHANGED <<selectorVars, amenityVars, wrapVars, marketVars,
                   loaderVars, layoutVars, serviceVars>>

\* icon = load_icon(path); if icon: canvas.paste(icon, ...)
RenderPasteIcon(p) ==
    /\ AtOp(p, "paste_icon")
    /\ LET icon == load_icon(Stage(p).asset)
       IN  IF icon.exc # None
           THEN Raise(p, icon.exc, Stage(p).asset) /\ UNCHANGED r_canvas
           ELSE /\ IF icon.ret.kind = "image"
                   THEN Advance(p, << Layer(Stage(p)) >>)
                   ELSE Advance(p, << >>)
                /\ UNCHANGED r_exc
    /\ UNCHANGED <<fs_missing, files, TICK_ICON, r_tpl, r_job, r_bg, r_data, r_fonts,
                   r_created, r_ret>>
    /\ UNCHANGED <<fs_corrupt, tpl_png, r_geom>>
    /\ UNCHANGED <<selectorVars, amenityVars, wrapVars, marketVars,
                   loaderVars, layoutVars, serviceVars>>

\* logo = load_logo(data.get("logo_path")); if logo: canvas.paste(logo, ...)
RenderPasteLogo(p) ==
    /\ AtOp(p, "paste_logo")
    /\ LET logo == load_logo(r_data[p].logo_path)
       IN  IF logo.exc # None
           THEN Raise(p, logo.exc, r_data[p].logo_path) /\ UNCHANGED r_canvas
           ELSE /\ IF logo.ret.kind = "image"
                   THEN Advance(p, << Layer(Stage(p)) >>)
                   ELSE Advance(p, << >>)
                /\ UNCHANGED r_exc
    /\ UNCHANGED <<fs_missing, files, TICK_ICON, r_tpl, r_job, r_bg, r_data, r_fonts,
                   r_created, r_ret>>
    /\ UNCHANGED <<fs_corrupt, tpl_png, r_geom>>
    /\ UNCHANGED <<selectorVars, amenityVars, wrapVars, marketVars,
                   loaderVars, layoutVars, serviceVars>>

\* The image an invocation has composited: its layers and the fonts that
\* were replaced by the default font.
Image(p) ==
    [ tpl |-> r_tpl[p], size |-> r_geom[p].canvas, layers |-> r_canvas[p],
      default_fonts |-> r_fonts[p] ]

\* canvas.save(output_path), first half: the file is opened for writing,
\* which creates or truncates it, or the open fails and nothing is touched.
RenderSaveOpen(p) ==
    /\ AtOp(p, "save_open")
    /\ LET path == OutputPath(r_job[p])
       IN  \/ /\ files' = [files EXCEPT ![path] = [state |-> "partial", by |-> p]]
              /\ r_created' = [r_created EXCEPT ![p] = (files[path] = Absent)]
              /\ Advance(p, << >>)
              /\ UNCHANGED r_exc
           \/ /\ Raise(p, "OSError", path)
              /\ UNCHANGED <<files, r_created, r_canvas>>
    /\ UNCHANGED <<fs_missing, TICK_ICON, r_tpl, r_job, r_bg, r_data, r_fonts, r_ret>>
    /\ UNCHANGED <<fs_corrupt, tpl_png, r_geom>>
    /\ UNCHANGED <<selectorVars, amenityVars, wrapVars, marketVars,
                   loaderVars, layoutVars, serviceVars>>

\* canvas.save(output_path), second half: the encoded image is written, or
\* the write fails part-way. render has no handler that removes the file;
\* the imaging library removes a file its own open created on some builds and
\* on none one that was there before.
RenderSaveWrite(p) ==
    /\ AtOp(p, "save_write")
    /\ LET path == OutputPath(r_job[p])
       IN  \/ /\ files' = [files EXCEPT ![path] =
                              [state |-> "complete", by |-> p, image |-> Image(p)]]
              /\ Advance(p, << >>)
              /\ UNCHANGED r_exc
           \/ /\ Raise(p, "OSError", path)
              /\ UNCHANGED <<files, r_canvas>>
           \/ /\ r_created[p]
              /\ Raise(p, "OSError", path)
              /\ files' = [files EXCEPT ![path] = Absent]
              /\ UNCHANGED r_canvas
    /\ UNCHANGED <<fs_missing, TICK_ICON, r_tpl, r_job, r_bg, r_data, r_fonts,
                   r_created, r_ret>>
    /\ UNCHANGED <<fs_corrupt, tpl_png, r_geom>>
    /\ UNCHANGED <<selectorVars, amenityVars, wrapVars, marketVars,
                   loaderVars, layoutVars, serviceVars>>

\* A plausible slip: the folder, not the file, is returned.
RenderReturn_folder(p) ==
    /\ AtOp(p, "return")
    /\ r_pc' = [r_pc EXCEPT ![p] = "done"]
    /\ r_at' = r_at
    /\ r_ret' = [r_ret EXCEPT ![p] = "outputs"]
    /\ r_trace' = [r_trace EXCEPT ![p] = Append(@, "return")]
    /\ UNCHANGED <<fs_missing, files, TICK_ICON, r_tpl, r_job, r_bg, r_data, r_canvas,
                   r_fonts, r_created, r_exc>>
    /\ UNCHANGED <<fs_corrupt, tpl_png, r_geom>>
    /\ UNCHANGED <<selectorVars, amenityVars, wrapVars, marketVars,
                   loaderVars, layoutVars, serviceVars>>

\* return output_path
RenderReturn(p) ==
    /\ AtOp(p, "return")
    /\ r_pc' = [r_pc EXCEPT ![p] = "done"]
    /\ r_at' = r_at
    /\ r_ret' = [r_ret EXCEPT ![p] = OutputPath(r_job[p])]
    /\ r_trace' = [r_trace EXCEPT ![p] = Append(@, "return")]
    /\ UNCHANGED <<fs_missing, files, TICK_ICON, r_tpl, r_job, r_bg, r_data, r_canvas,
                   r_fonts, r_created, r_exc>>
    /\ UNCHANGED <<fs_corrupt, tpl_png, r_geom>>
    /\ UNCHANGED <<selectorVars, amenityVars, wrapVars, marketVars,
                   loaderVars, layoutVars, serviceVars>>

\* The environment: an asset file is deleted while no render runs.
RemoveAsset(a) ==
    /\ AllIdle
    /\ a \notin fs_missing
    /\ Cardinality(fs_missing) < MaxMissing
    /\ fs_missing' = fs_missing \cup {a}
    /\ UNCHANGED <<files, TICK_ICON, r_pc, r_at, r_tpl, r_job, r_bg, r_data, r_canvas,
                   r_fonts, r_trace, r_created, r_ret, r_exc>>
    /\ UNCHANGED <<fs_corrupt, tpl_png, r_geom>>
    /\ UNCHANGED <<selectorVars, amenityVars, wrapVars, marketVars,
                   loaderVars, layoutVars, serviceVars>>

\* How many asset files may hold something that is not what they should.
MaxCorrupt == 1

\* The environment: an asset file that exists is overwritten with bytes that
\* are no image (or no font), while no render runs.
CorruptAsset(a) ==
    /\ AllIdle
    /\ Exists(a)
    /\ a \notin fs_corrupt
    /\ Cardinality(fs_corrupt) < MaxCorrupt
    /\ fs_corrupt' = fs_corrupt \cup {a}
    /\ UNCHANGED <<fs_missing, tpl_png, files, TICK_ICON, r_pc, r_at, r_tpl, r_job, r_bg,
                   r_data, r_canvas, r_geom, r_fonts, r_trace, r_created, r_ret, r_exc>>
    /\ UNCHANGED <<selectorVars, amenityVars, wrapVars, marketVars,
                   loaderVars, layoutVars, serviceVars>>

\* The environment: an earlier run of the program left a poster under this
\* job_id (the __main__ blocks of the templates always use "local_test").
EarlierOutput(job_id) ==
    /\ AllIdle
    /\ files[OutputPath(job_id)] = Absent
    /\ files' = [files EXCEPT ![OutputPath(job_id)] =
                    [state |-> "complete", by |-> "earlier run", image |-> "earlier run"]]
    /\ UNCHANGED <<fs_missing, TICK_ICON, r_pc, r_at, r_tpl, r_job, r_bg, r_data, r_canvas,
                   r_fonts, r_trace, r_created, r_ret, r_exc>>
    /\ UNCHANGED <<fs_corrupt, tpl_png, r_geom>>
    /\ UNCHANGED <<selectorVars, amenityVars, wrapVars, marketVars,
                   loaderVars, layoutVars, serviceVars>>

\* The environment: templates/template2.png is replaced by an image of other
\* dimensions while no render runs.
ReplaceTemplatePng(size) ==
    /\ AllIdle
    /\ size # tpl_png
    /\ tpl_png' = size
    /\ UNCHANGED <<fs_missing, fs_corrupt, files, TICK_ICON, r_pc, r_at, r_tpl, r_job, r_bg, r_data,
                   r_canvas, r_geom, r_fonts, r_trace, r_created, r_ret, r_exc>>
    /\ UNCHANGED <<selectorVars, amenityVars, wrapVars, marketVars,
                   loaderVars, layoutVars, serviceVars>>

\* The render that invocation p completed is run once more, as q, with the
\* same arguments.
RenderAgain(p, q) ==
    /\ r_pc[p] = "done"
    /\ RenderCall(q, r_tpl[p], r_job[p], r_bg[p], r_data[p].logo_path, r_geom[p].bgdim)

RenderStep(p) ==
    \/ RenderSetup(p)
    \/ RenderOpenBg(p)
    \/ RenderOpenAsset(p)
    \/ RenderLoadFonts(p)
    \/ RenderDraw(p)
    \/ RenderPasteIcon(p)
    \/ RenderPasteLogo(p)
    \/ RenderSaveOpen(p)
    \/ RenderSaveWrite(p)
    \/ RenderReturn(p)

InitRender ==
    /\ fs_missing = {}
    /\ fs_corrupt = {}
    /\ tpl_png = <<1080, 1920>>
    /\ files = [path \in OutputPaths |-> Absent]
    /\ TICK_ICON = [file |-> "assets/tick.png", size |-> <<24, 24>>]
    /\ r_pc = [p \in Procs |-> "idle"]
    /\ r_at = [p \in Procs |-> 0]
    /\ r_tpl = [p \in Procs |-> 0]
    /\ r_job = [p \in Procs |-> None]
    /\ r_bg = [p \in Procs |-> None]
    /\ r_data = [p \in Procs |-> None]
    /\ r_canvas = [p \in Procs |-> << >>]
    /\ r_geom = [p \in Procs |-> None]
    /\ r_fonts = [p \in Procs |-> {}]
    /\ r_trace = [p \in Procs |-> << >>]
    /\ r_created = [p \in Procs |-> FALSE]
    /\ r_ret = [p \in Procs |-> None]
    /\ r_exc = [p \in Procs |-> None]

\* One render at a time, over every input and every state of the filesystem.
NextRender ==
    \/ \E a \in AssetFiles : RemoveAsset(a)
    \/ \E j \in EarlierJobIds : EarlierOutput(j)
    \/ \E tpl \in Templates, j \in JobIds, bg \in BgKinds, logo \in LogoPaths :
          RenderCall("p1", tpl, j, bg, logo, <<1920, 1080>>)
    \/ RenderStep("p1")

\* Two renders side by side, as two concurrent requests run them.
NextConcurrent ==
    \/ \E p \in Procs, tpl \in Templates, j \in JobIds :
          RenderCall(p, tpl, j, "ok", None, <<1920, 1080>>)
    \/ \E p \in Procs : RenderStep(p)

\* A render, and when it has returned the same render once more; the asset
\* files change only before the first.
NextRepeat ==
    \/ \E a \in AssetFiles : RemoveAsset(a)
    \/ \E tpl \in Templates, logo \in LogoPaths :
          RenderCall("p1", tpl, "j1", "ok", logo, <<1920, 1080>>)
    \/ RenderStep("p1")
    \/ RenderAgain("p1", "p2")
    \/ RenderStep("p2")

\* One render at a time over every background size, template image size and
\* logo argument.
NextCanvas ==
    \/ \E size \in TemplatePngSizes : ReplaceTemplatePng(size)
    \/ \E a \in IconFiles \cup LogoFiles : CorruptAsset(a)
    \/ \E tpl \in Templates, logo \in LogoPaths, size \in BgSizes :
          RenderCall("p1", tpl, "j1", "ok", logo, size)
    \/ RenderStep("p1")

(***************************************************************************)
(* app/services/text_service.py: generate_marketing_text                   *)
(*                                                                         *)
(* A string is a sequence of tokens (a word, a blank, ":", "-", a field    *)
(* name, a code fence); the empty string and the empty list are both      *)
(* << >>.                                                                  *)
(***************************************************************************)

\* The longest model reply tried, in lines.
MaxReplyLines == 3

\* The lines a model reply is made of: fields with and without a value, the
\* bullets of the return format with and without text, a bullet with
\* hyphens inside and blanks around, and a line that matches no field.
ReplyLines ==
    { << "TITLE", ":", " ", "Dream" >>,
      << "TITLE", ":" >>,
      << "SUBLINE", ":", " ", "Homes" >>,
      << "SUBLINE2", ":", " ", "Offer" >>,
      << "-", " ", "Pool" >>,
      << "-" >>,
      << " ", "-", " ", "Wi", "-", "Fi", " " >>,
      << "CTA", ":", " ", "call" >>,
      << "<fence>", "AMENITIES", ":" >> }

\* The data arguments tried: every key, no key, a blank price with an empty
\* amenity list, seven amenities one of them blank, and no location.
MarketingData ==
    { [k \in {"property_type", "location", "price", "bhk", "amenities"} |->
          CASE k = "property_type" -> << "Villa" >>
            [] k = "location" -> << "Pune" >>
            [] k = "price" -> << "2Cr" >>
            [] k = "bhk" -> << "3BHK" >>
            [] k = "amenities" -> << << "Pool" >>, << "Gym" >> >>],
      [k \in {} |-> << >>],
      [k \in {"location", "price", "amenities"} |->
          CASE k = "location" -> << "Pune" >>
            [] k = "price" -> << >>
            [] k = "amenities" -> << >>],
      [k \in {"location", "price", "amenities"} |->
          CASE k = "location" -> << "Pune" >>
            [] k = "price" -> << "2Cr" >>
            [] k = "amenities" ->
                 << << "A1" >>, << >>, << "A3" >>, << "A4" >>, << "A5" >>,
                    << "A6" >>, << "A7" >> >>],
      [k \in {"price"} |-> << "2Cr" >>] }

\* str.upper(), token by token.
UpperToken(t) ==
    CASE t = "call" -> "CALL"
      [] t = "Villa" -> "VILLA"
      [] t = "Pune" -> "PUNE"
      [] OTHER -> t

Upper(str) == [i \in DOMAIN str |-> UpperToken(str[i])]

RECURSIVE LStrip(_)
LStrip(str) == IF str # << >> /\ Head(str) = " " THEN LStrip(Tail(str)) ELSE str

RECURSIVE RStrip(_)
RStrip(str) ==
    IF str # << >> /\ str[Len(str)] = " " THEN RStrip(SubSeq(str, 1, Len(str) - 1)) ELSE str

\* str.strip()
Strip(str) == RStrip(LStrip(str))

\* str.replace(token, "")
RemoveAll(str, token) == SelectSeq(str, LAMBDA t : t # token)

\* str.startswith(prefix)
StartsWith(str, prefix) ==
    Len(str) >= Len(prefix) /\ SubSeq(str, 1, Len(prefix)) = prefix

\* line.split(":", 1)[1]: what follows the first colon.
AfterColon(line) ==
    LET k == CHOOSE k \in 1..Len(line) :
                 line[k] = ":" /\ \A j \in 1..(k - 1) : line[j] # ":"
    IN  SubSeq(line, k + 1, Len(line))

\* list[:n]
Take(list, n) == SubSeq(list, 1, IF Len(list) < n THEN Len(list) ELSE n)

\* One pass of the loop over raw.splitlines().
ParseLine(result, rawline) ==
    LET line == Strip(rawline)
    IN  IF StartsWith(line, << "TITLE", ":" >>)
        THEN [result EXCEPT !.title = Strip(AfterColon(line))]
        ELSE IF StartsWith(line, << "SUBLINE2", ":" >>)
        THEN [result EXCEPT !.subline2 = Strip(AfterColon(line))]
        ELSE IF StartsWith(line, << "SUBLINE", ":" >>)
        THEN [result EXCEPT !.subline = Strip(AfterColon(line))]
        ELSE IF StartsWith(line, << "-" >>)
        THEN [result EXCEPT !.amenities = Append(@, Strip(RemoveAll(line, "-")))]
        ELSE IF StartsWith(line, << "CTA", ":" >>)
        THEN [result EXCEPT !.cta = Upper(Strip(AfterColon(line)))]
        ELSE result

RECURSIVE ParseLines(_, _)
ParseLines(result, lines) ==
    IF lines = << >> THEN result
    ELSE ParseLines(ParseLine(result, Head(lines)), Tail(lines))

\* A plausible slip: the amenity fallback is left out.
AmenitiesFallback_none(amenities) == amenities

\* if not result["amenities"]: result["amenities"] = [...]
AmenitiesFallback(amenities) ==
    IF amenities = << >>
    THEN << << "Infinity", " ", "Pool" >>, << "Gymnasium" >>, << "Clubhouse" >> >>
    ELSE amenities

\* The ---- FALLBACKS ---- section; data['location'] is read only when the
\* subline is blank.
Fallbacks(result, data) ==
    [ title |-> IF result.title = << >> THEN << "LUXURY", " ", "REDEFINED" >>
                ELSE result.title,
      subline |-> IF result.subline = << >>
                  THEN DictGet(data, "bhk", << "2", " ", "&", " ", "3", " ", "BHK" >>)
                         \o << " ", "PREMIUM", " ", "HOMES", " ", "AT", " " >>
                         \o Upper(data["location"])
                  ELSE result.subline,
      subline2 |-> IF result.subline2 = << >>
                   THEN DictGet(data, "price", << "Price", " ", "on", " ", "Request" >>)
                   ELSE result.subline2,
      amenities |-> AmenitiesFallback(result.amenities),
      cta |-> IF result.cta = << >> THEN << "BOOK", " ", "NOW" >> ELSE result.cta ]

\* The record of the mock branch.
MockText(data) ==
    LET amenities == Take(DictGet(data, "amenities",
                            << << "Infinity", " ", "Pool" >>, << "Smart", " ", "Home" >>,
                               << "Private", " ", "Garden" >> >>), 6)
        bhk == DictGet(data, "bhk", << "2", " ", "&", " ", "3", " ", "BHK" >>)
    IN  [ title |-> << "LUXURY", " " >> \o Upper(DictGet(data, "property_type", << "LIVING" >>)),
          subline |-> bhk \o << " ", "Premium", " ", "Residences", " ", "at", " " >>
                        \o DictGet(data, "location", << "Prime", " ", "Location" >>),
          subline2 |-> DictGet(data, "price", << "Price", " ", "on", " ", "Request" >>),
          amenities |-> amenities,
          cta |-> << "BOOK", " ", "NOW" >>,
          builder |-> DictGet(data, "builder", << >>),
          address |-> DictGet(data, "address", << >>),
          email |-> DictGet(data, "email", << >>),
          bhk |-> bhk ]

EmptyResult ==
    [title |-> << >>, subline |-> << >>, subline2 |-> << >>, amenities |-> << >>, cta |-> << >>]

\* raw = res.text.replace(<code fence>, "").strip(), line by line; the token
\* "<fence>" stands for the three backticks.
RawLines(reply) == [i \in DOMAIN reply |-> RemoveAll(reply[i], "<fence>")]

\* One call of generate_marketing_text: the mock branch, or the model's
\* reply parsed and completed by the fallbacks.
GenerateMarketingText(mode, data, reply) ==
    /\ mt_pc = "idle"
    /\ mt_mode' = mode
    /\ mt_data' = data
    /\ mt_reply' = reply
    /\ IF mode = "mock"
       THEN /\ mt_result' = MockText(data)
            /\ mt_pc' = "done"
            /\ mt_exc' = mt_exc
       ELSE LET parsed == ParseLines(EmptyResult, RawLines(reply))
            IN  IF parsed.subline = << >> /\ "location" \notin DOMAIN data
                THEN /\ mt_pc' = "raised"
                     /\ mt_exc' = "KeyError: 'location'"
                     /\ mt_result' = mt_result
                ELSE /\ mt_result' = Fallbacks(parsed, data)
                     /\ mt_pc' = "done"
                     /\ mt_exc' = mt_exc
    /\ UNCHANGED <<selectorVars, amenityVars, wrapVars, renderVars,
                   loaderVars, layoutVars, serviceVars>>

\* text_model.generate_content(prompt) raises: nothing catches it.
GenerateMarketingTextFails(data) ==
    /\ mt_pc = "idle"
    /\ mt_mode' = "model"
    /\ mt_data' = data
    /\ mt_pc' = "raised"
    /\ mt_exc' = "provider error"
    /\ UNCHANGED <<mt_reply, mt_result>>
    /\ UNCHANGED <<selectorVars, amenityVars, wrapVars, renderVars,
                   loaderVars, layoutVars, serviceVars>>

InitMarketing ==
    /\ mt_pc = "idle"
    /\ mt_mode = None
    /\ mt_data = << >>
    /\ mt_reply = << >>
    /\ mt_result = None
    /\ mt_exc = None

NextMarketing ==
    \/ \E data \in MarketingData : GenerateMarketingText("mock", data, << >>)
    \/ \E data \in MarketingData, reply \in SeqsUpTo(ReplyLines, MaxReplyLines) :
          GenerateMarketingText("model", data, reply)
    \/ \E data \in MarketingData : GenerateMarketingTextFails(data)

(***************************************************************************)
(* app/templates/template2.py, template3.py, template4.py: the amenity     *)
(* blocks                                                                  *)
(***************************************************************************)

\* The longest amenity list tried.
MaxLayoutItems == 9

\* The amenity strings tried, and what draw.textbbox((0, 0), text, font)
\* measures for each as (left, top, right, bottom): one of odd and one of even
\* width and height (the metrics are Pillow's, not the repository's).
LayoutTexts == { "Gym", "Infinity Pool" }

TextBBox(text) ==
    CASE text = "Gym" -> <<0, 10, 85, 39>>
      [] text = "Infinity Pool" -> <<2, 8, 242, 48>>

Min(a, b) == IF a < b THEN a ELSE b

\* A plausible slip: the end index is taken as inclusive.
Slice_inclusive(seq, a, b) == SubSeq(seq, a + 1, Min(b + 1, Len(seq)))

\* Python's s[a:b] for 0 <= a <= b.
Slice(seq, a, b) == SubSeq(seq, a + 1, Min(b, Len(seq)))

\* template2.render: left_x, right_x = 250, 620; start_y = 1150;
\* icon_gap = 14; tick_size = 28; the row height 42.
T2LeftX == 250
T2RightX == 620
T2StartY == 1150
T2IconGap == 14
T2TickSize == 28
T2RowHeight == 42

\* amenities = content["amenities"]; y = start_y
Amen2Call(items) ==
    /\ ly_pc = "idle"
    /\ ly_pc' = "left"
    /\ ly_tpl' = 2
    /\ ly_items' = items
    /\ ly_i' = 1
    /\ ly_y' = T2StartY
    /\ ly_drawn' = << >>
    /\ UNCHANGED <<selectorVars, amenityVars, wrapVars, renderVars, marketVars, loaderVars, serviceVars>>

\* One iteration of `for item in left_items`, left_items = amenities[:2].
Amen2Left ==
    /\ ly_pc = "left"
    /\ ly_i <= Len(Slice(ly_items, 0, 2))
    /\ LET item == Slice(ly_items, 0, 2)[ly_i]
           text_offset == T2TickSize + T2IconGap
       IN  ly_drawn' = Append(ly_drawn,
               [ item |-> item, column |-> "left",
                 tick_at |-> <<T2LeftX - text_offset, ly_y + 4>>,
                 text_at |-> <<T2LeftX, ly_y>> ])
    /\ ly_y' = ly_y + T2RowHeight
    /\ ly_i' = ly_i + 1
    /\ UNCHANGED <<ly_pc, ly_tpl, ly_items>>
    /\ UNCHANGED <<selectorVars, amenityVars, wrapVars, renderVars, marketVars, loaderVars, serviceVars>>

\* The left loop is exhausted: y = start_y, and the right loop starts.
Amen2Turn ==
    /\ ly_pc = "left"
    /\ ly_i > Len(Slice(ly_items, 0, 2))
    /\ ly_pc' = "right"
    /\ ly_i' = 1
    /\ ly_y' = T2StartY
    /\ UNCHANGED <<ly_tpl, ly_items, ly_drawn>>
    /\ UNCHANGED <<selectorVars, amenityVars, wrapVars, renderVars, marketVars, loaderVars, serviceVars>>

\* One iteration of `for item in right_items`, right_items = amenities[2:4].
Amen2Right ==
    /\ ly_pc = "right"
    /\ ly_i <= Len(Slice(ly_items, 2, 4))
    /\ LET item == Slice(ly_items, 2, 4)[ly_i]
           text_offset == T2TickSize + T2IconGap
       IN  ly_drawn' = Append(ly_drawn,
               [ item |-> item, column |-> "right",
                 tick_at |-> <<T2RightX - text_offset, ly_y + 4>>,
                 text_at |-> <<T2RightX, ly_y>> ])
    /\ ly_y' = ly_y + T2RowHeight
    /\ ly_i' = ly_i + 1
    /\ UNCHANGED <<ly_pc, ly_tpl, ly_items>>
    /\ UNCHANGED <<selectorVars, amenityVars, wrapVars, renderVars, marketVars, loaderVars, serviceVars>>

\* template3: the arguments of the call in render and the defaults and
\* locals of draw_amenities.
T3StartX == 140
T3StartY == 900
T3MaxWidth == 720
T3LineHeight == 48
T3MaxPerColumn == 4
T3ColGap == 60
T3TextOffset == 28

\* col_width = max_width // 2
T3ColWidth == T3MaxWidth \div 2

\* A plausible slip: the row, not the column, is the quotient.
Amen3Position_swapped(idx) ==
    LET col == idx % T3MaxPerColumn
        row == idx \div T3MaxPerColumn
    IN  [ col |-> col, row |-> row,
          x |-> T3StartX + col * (T3ColWidth + T3ColGap),
          y |-> T3StartY + row * T3LineHeight ]

\* col = idx // max_per_column; row = idx % max_per_column;
\* x = start_x + col * (col_width + col_gap); y = start_y + row * line_height
Amen3Position(idx) ==
    LET col == idx \div T3MaxPerColumn
        row == idx % T3MaxPerColumn
    IN  [ col |-> col, row |-> row,
          x |-> T3StartX + col * (T3ColWidth + T3ColGap),
          y |-> T3StartY + row * T3LineHeight ]

\* draw_amenities(draw, content["amenities"], ...) is called.
Amen3Call(items) ==
    /\ ly_pc = "idle"
    /\ ly_pc' = "loop"
    /\ ly_tpl' = 3
    /\ ly_items' = items
    /\ ly_i' = 0
    /\ ly_drawn' = << >>
    /\ UNCHANGED ly_y
    /\ UNCHANGED <<selectorVars, amenityVars, wrapVars, renderVars, marketVars, loaderVars, serviceVars>>

\* One iteration of `for idx, amenity in enumerate(amenities)`.
Amen3Step ==
    /\ ly_pc = "loop" /\ ly_tpl = 3
    /\ ly_i < Len(ly_items)
    /\ LET pos == Amen3Position(ly_i)
       IN  ly_drawn' = Append(ly_drawn,
               [ index |-> ly_i, item |-> ly_items[ly_i + 1],
                 tick_at |-> <<pos.x, pos.y>>,
                 text_at |-> <<pos.x + T3TextOffset, pos.y>> ])
    /\ ly_i' = ly_i + 1
    /\ UNCHANGED <<ly_pc, ly_tpl, ly_items, ly_y>>
    /\ UNCHANGED <<selectorVars, amenityVars, wrapVars, renderVars, marketVars, loaderVars, serviceVars>>

\* template4.render: amenity_y = [1150, 1270, 1390]; amenity_x = 250;
\* padding_x, padding_y = 40, 15.
T4AmenityY == <<1150, 1270, 1390>>
T4AmenityX == 250
T4PaddingX == 40
T4PaddingY == 15

\* A plausible slip: the list is not cut to three and the positions repeat.
Amen4Pairs_cycled(items) ==
    [ k \in 1..Len(items) |->
        [text |-> items[k], y |-> T4AmenityY[((k - 1) % Len(T4AmenityY)) + 1]] ]

\* zip(content["amenities"][:3], amenity_y)
Amen4Pairs(items) ==
    [ k \in 1..Min(Len(Slice(items, 0, 3)), Len(T4AmenityY)) |->
        [text |-> Slice(items, 0, 3)[k], y |-> T4AmenityY[k]] ]

\* The for loop over the pairs starts.
Amen4Call(items) ==
    /\ ly_pc = "idle"
    /\ ly_pc' = "loop"
    /\ ly_tpl' = 4
    /\ ly_items' = items
    /\ ly_i' = 1
    /\ ly_drawn' = << >>
    /\ UNCHANGED ly_y
    /\ UNCHANGED <<selectorVars, amenityVars, wrapVars, renderVars, marketVars, loaderVars, serviceVars>>

\* One iteration of `for text, y in zip(...)`: the rectangle and the text.
Amen4Step ==
    /\ ly_pc = "loop" /\ ly_tpl = 4
    /\ ly_i <= Len(Amen4Pairs(ly_items))
    /\ LET text == Amen4Pairs(ly_items)[ly_i].text
           y == Amen4Pairs(ly_items)[ly_i].y
           bbox == TextBBox(text)
           w == bbox[3] - bbox[1]
           h == bbox[4] - bbox[2]
       IN  ly_drawn' = Append(ly_drawn,
               [ item |-> text, y |-> y, w |-> w, h |-> h,
                 rect |-> << T4AmenityX - w \div 2 - T4PaddingX,
                             y - h \div 2 - T4PaddingY,
                             T4AmenityX + w \div 2 + T4PaddingX,
                             y + h \div 2 + T4PaddingY >>,
                 text_at |-> << T4AmenityX - w \div 2, y - h \div 2 - 4 >> ])
    /\ ly_i' = ly_i + 1
    /\ UNCHANGED <<ly_pc, ly_tpl, ly_items, ly_y>>
    /\ UNCHANGED <<selectorVars, amenityVars, wrapVars, renderVars, marketVars, loaderVars, serviceVars>>

\* The last loop of the block is exhausted.
AmenBlockDone ==
    /\ \/ ly_pc = "right" /\ ly_i > Len(Slice(ly_items, 2, 4))
       \/ ly_pc = "loop" /\ ly_tpl = 3 /\ ly_i >= Len(ly_items)
       \/ ly_pc = "loop" /\ ly_tpl = 4 /\ ly_i > Len(Amen4Pairs(ly_items))
    /\ ly_pc' = "done"
    /\ UNCHANGED <<ly_tpl, ly_items, ly_i, ly_y, ly_drawn>>
    /\ UNCHANGED <<selectorVars, amenityVars, wrapVars, renderVars, marketVars, loaderVars, serviceVars>>

InitLayouts ==
    /\ ly_pc = "idle"
    /\ ly_tpl = 0
    /\ ly_items = << >>
    /\ ly_i = 0
    /\ ly_y = 0
    /\ ly_drawn = << >>

NextLayouts ==
    \/ \E items \in SeqsUpTo(LayoutTexts, MaxLayoutItems) : Amen2Call(items)
    \/ Amen2Left
    \/ Amen2Turn
    \/ Amen2Right
    \/ \E items \in SeqsUpTo(LayoutTexts, MaxLayoutItems) : Amen3Call(items)
    \/ Amen3Step
    \/ \E items \in SeqsUpTo(LayoutTexts, MaxLayoutItems) : Amen4Call(items)
    \/ Amen4Step
    \/ AmenBlockDone

(***************************************************************************)
(* app/templates/template1.py, template3.py, template4.py: load_font,      *)
(* load_icon, load_logo called on their own                                *)
(***************************************************************************)

\* The path arguments tried: None, the empty string, a font, an icon and a
\* logo file.
LoaderPaths == { None, "", "fonts/Oswald-Bold.ttf", "assets/call.png", "uploads/logo.png" }

\* The files among them.
LoaderFiles == LoaderPaths \ { None, "" }

\* The size arguments tried for load_font: one the templates pass, and one
\* FreeType refuses.
FontSizes == { 36, 0 }

\* What the filesystem holds when a loader is called.
FsView == [missing |-> fs_missing, corrupt |-> fs_corrupt]

\* load_font(path, size) is called and returns.
LoadFontCall(path, size) ==
    /\ ld' = [ fn |-> "load_font", path |-> path, size |-> size, fs |-> FsView,
               ret |-> load_font(path, size).ret, exc |-> load_font(path, size).exc ]
    /\ UNCHANGED <<selectorVars, amenityVars, wrapVars, renderVars, marketVars, layoutVars, serviceVars>>

\* load_icon(path) is called and returns or raises.
LoadIconCall(path) ==
    /\ ld' = [ fn |-> "load_icon", path |-> path, size |-> 0, fs |-> FsView,
               ret |-> load_icon(path).ret, exc |-> load_icon(path).exc ]
    /\ UNCHANGED <<selectorVars, amenityVars, wrapVars, renderVars, marketVars, layoutVars, serviceVars>>

\* load_logo(path) is called and returns or raises.
LoadLogoCall(path) ==
    /\ ld' = [ fn |-> "load_logo", path |-> path, size |-> 0, fs |-> FsView,
               ret |-> load_logo(path).ret, exc |-> load_logo(path).exc ]
    /\ UNCHANGED <<selectorVars, amenityVars, wrapVars, renderVars, marketVars, layoutVars, serviceVars>>

InitLoaders ==
    ld = [ fn |-> None, path |-> None, size |-> 0,
           fs |-> [missing |-> {}, corrupt |-> {}], ret |-> NoImage, exc |-> None ]

NextLoaders ==
    \/ \E a \in LoaderFiles : RemoveAsset(a)
    \/ \E a \in LoaderFiles : CorruptAsset(a)
    \/ \E path \in LoaderPaths, size \in FontSizes : LoadFontCall(path, size)
    \/ \E path \in LoaderPaths : LoadIconCall(path)
    \/ \E path \in LoaderPaths : LoadLogoCall(path)

(***************************************************************************)
(* generate_blog_content: app/services/blog_ai_service.py and the          *)
(* PerplexityService method of generate_blog.py                            *)
(***************************************************************************)

\* The largest length_num and max_attempts tried.
MaxLength == 3
MaxAttempts == 3

\* The texts the provider returns: nothing, one word, two words, a blank.
BlogReplies == { << >>, << "i" >>, << "i", " ", "W" >>, << " " >> }

BlogVariants == { "service", "script" }

RECURSIVE TextLStrip(_)
TextLStrip(s) == IF s # << >> /\ Head(s) \in Whitespace THEN TextLStrip(Tail(s)) ELSE s

RECURSIVE TextRStrip(_)
TextRStrip(s) ==
    IF s # << >> /\ s[Len(s)] \in Whitespace
    THEN TextRStrip(SubSeq(s, 1, Len(s) - 1)) ELSE s

\* blog_text.strip()
TextStrip(s) == TextRStrip(TextLStrip(s))

\* No dict was returned.
NoBlog == [blogText |-> << >>, wordCount |-> -1]

\* while word_count < length_num and current_attempts < max_attempts
LoopTest == bl_words < bl_length /\ bl_attempts < bl_max

\* generate_blog_content(..., length_num, ..., max_attempts) is called.
BlogCall(variant, length_num, max_attempts) ==
    /\ bl_pc = "idle"
    /\ bl_pc' = "loop"
    /\ bl_variant' = variant
    /\ bl_length' = length_num
    /\ bl_max' = max_attempts
    /\ bl_text' = << >>
    /\ bl_words' = 0
    /\ bl_attempts' = 0
    /\ bl_counts' = << >>
    /\ UNCHANGED <<bl_ret, bl_exc>>

\* The loop test holds: current_attempts += 1, the prompt is built and the
\* provider is called.
BlogIterate ==
    /\ bl_pc = "loop"
    /\ LoopTest
    /\ bl_pc' = "call"
    /\ bl_attempts' = bl_attempts + 1
    /\ UNCHANGED <<bl_variant, bl_length, bl_max, bl_text, bl_words, bl_counts,
                   bl_ret, bl_exc>>

\* The provider answers: blog_text += "\n\n" + new_content and
\* word_count = len(blog_text.split()).
ProviderReturns(new_content) ==
    /\ bl_pc = "call"
    /\ bl_pc' = "loop"
    /\ bl_text' = bl_text \o << "\n", "\n" >> \o new_content
    /\ bl_words' = Len(Split(bl_text'))
    /\ bl_counts' = Append(bl_counts, bl_words')
    /\ UNCHANGED <<bl_variant, bl_length, bl_max, bl_attempts, bl_ret, bl_exc>>

\* The provider call raises (no key, an HTTP error status, a reply without
\* the expected fields): nothing in the function catches it.
ProviderRaises ==
    /\ bl_pc = "call"
    /\ bl_pc' = "raised"
    /\ bl_exc' = "HTTPError"
    /\ UNCHANGED <<bl_variant, bl_length, bl_max, bl_text, bl_words, bl_attempts,
                   bl_counts, bl_ret>>

\* The provider accepts the request and sends nothing back.
\* blog_ai_service passes timeout=120 to requests.post, which raises;
\* generate_blog.py passes no timeout and requests.post waits without end.
ProviderSilent ==
    /\ bl_pc = "call"
    /\ IF bl_variant = "service"
       THEN bl_pc' = "raised" /\ bl_exc' = "Timeout"
       ELSE bl_pc' = "blocked" /\ bl_exc' = bl_exc
    /\ UNCHANGED <<bl_variant, bl_length, bl_max, bl_text, bl_words, bl_attempts,
                   bl_counts, bl_ret>>

\* The loop test fails:
\* return {"blogText": blog_text.strip(), "wordCount": word_count}
BlogReturn ==
    /\ bl_pc = "loop"
    /\ ~LoopTest
    /\ bl_pc' = "done"
    /\ bl_ret' = [blogText |-> TextStrip(bl_text), wordCount |-> bl_words]
    /\ UNCHANGED <<bl_variant, bl_length, bl_max, bl_text, bl_words, bl_attempts,
                   bl_counts, bl_exc>>

\* The steps of a call in progress.
BlogStep ==
    \/ BlogIterate
    \/ \E new_content \in BlogReplies : ProviderReturns(new_content)
    \/ ProviderRaises
    \/ ProviderSilent
    \/ BlogReturn

InitBlog ==
    /\ bl_pc = "idle"
    /\ bl_variant = "service"
    /\ bl_length = 0
    /\ bl_max = 0
    /\ bl_text = << >>
    /\ bl_words = 0
    /\ bl_attempts = 0
    /\ bl_counts = << >>
    /\ bl_ret = NoBlog
    /\ bl_exc = None

NextBlog ==
    /\ \/ \E variant \in BlogVariants, length_num \in 0..MaxLength,
              max_attempts \in 0..MaxAttempts :
                BlogCall(variant, length_num, max_attempts)
       \/ BlogStep
    /\ UNCHANGED <<posterVars, endpointVars, mainVars, requestVars>>

(***************************************************************************)
(* app/api/blog.py: generate_blog                                          *)
(***************************************************************************)

\* LENGTH_MAPPING.get(body.length, 500)
LENGTH_MAPPING(length) ==
    CASE length = "Short (300-500 words)" -> 300
      [] length = "Medium (500-1000 words)" -> 500
      [] length = "Long (1000-2000 words)" -> 1000
      [] OTHER -> 500

\* The request bodies tried: with a topic, with an industry only, with
\* neither; keywords empty, blank and given; a known length and an unknown.
BlogBodies ==
    [ topic : { None, "topic" }, industry : { None, "industry" },
      keywords : { << >>, << " " >>, << "W" >> },
      length : { "Short (300-500 words)", "Huge" } ]

\* What a keyword provider does: it returns keywords, or a blank, or raises.
KeywordOutcomes == { "keywords", "blank", "raise" }

\* What the OpenAI content call does: it returns a text, or raises.
OpenAIOutcomes ==
    { [raises |-> FALSE, text |-> << "W" >>],
      [raises |-> FALSE, text |-> << "W", " ", "W", "\n" >>],
      [raises |-> TRUE, text |-> << >>] }

NoResponse == [status |-> 0, success |-> FALSE, markdown |-> << >>, wordCount |-> -1,
               keywords |-> << >>]

\* A plausible slip: the fallback's text is appended to what Perplexity had
\* written before it failed.
openai_generate_blog_content_append(blog_text) ==
    [blogText |-> TextStrip(bl_text \o blog_text),
     wordCount |-> Len(Split(bl_text \o blog_text))]

\* openai_generate_blog_content, from the text the one chat call returned:
\* {"blogText": blog_text.strip(), "wordCount": len(blog_text.split())}
openai_generate_blog_content(blog_text) ==
    [blogText |-> TextStrip(blog_text), wordCount |-> Len(Split(blog_text))]

\* Lines 61-71: topic and keywords from the body, or from
\* generate_title_and_keywords (which catches its provider's failure and
\* returns a stock idea); without a topic the request is refused.
GenerateBlogStart(body, idea_keywords) ==
    /\ ep_pc = "idle"
    /\ bl_pc = "idle"
    /\ ep_body' = body
    /\ LET industry_mode == body.topic = None /\ body.industry # None
           topic == IF industry_mode THEN "idea" ELSE body.topic
       IN  /\ ep_topic' = topic
           /\ ep_keywords' = IF industry_mode THEN idea_keywords ELSE body.keywords
           /\ ep_called' = IF industry_mode THEN { "generate_title_and_keywords" } ELSE {}
           /\ IF topic = None
              THEN /\ ep_pc' = "failed"
                   /\ ep_response' = [NoResponse EXCEPT !.status = 400]
              ELSE /\ ep_pc' = "keywords"
                   /\ UNCHANGED ep_response
    /\ UNCHANGED <<ep_openai, ep_content>>
    /\ UNCHANGED <<posterVars, blogVars, mainVars, requestVars>>

\* Lines 74-76: with blank keywords ai.generate_keywords(topic) is tried.
KeywordsPerplexity(outcome) ==
    /\ ep_pc = "keywords"
    /\ IF TextStrip(ep_keywords) # << >>
       THEN /\ ep_pc' = "content"
            /\ UNCHANGED <<ep_keywords, ep_called>>
       ELSE /\ ep_called' = ep_called \cup { "generate_keywords" }
            /\ CASE outcome = "keywords" ->
                        ep_keywords' = << "i" >> /\ ep_pc' = "content"
                 [] outcome = "blank" ->
                        ep_keywords' = << >> /\ ep_pc' = "content"
                 [] outcome = "raise" ->
                        ep_keywords' = ep_keywords /\ ep_pc' = "kw_fallback"
    /\ UNCHANGED <<ep_body, ep_topic, ep_openai, ep_content, ep_response>>
    /\ UNCHANGED <<posterVars, blogVars, mainVars, requestVars>>

\* Lines 77-79: the except branch calls ai.openai_generate_keywords(topic),
\* which returns "" when its own call raises.
KeywordsOpenAI(outcome) ==
    /\ ep_pc = "kw_fallback"
    /\ ep_called' = ep_called \cup { "openai_generate_keywords" }
    /\ ep_keywords' = CASE outcome = "keywords" -> << "W" >>
                        [] outcome = "blank" -> << " " >>
                        [] outcome = "raise" -> << >>
    /\ ep_pc' = "content"
    /\ UNCHANGED <<ep_body, ep_topic, ep_openai, ep_content, ep_response>>
    /\ UNCHANGED <<posterVars, blogVars, mainVars, requestVars>>

\* Lines 113-118: ai.generate_blog_content(..., length_num, interlinks) is
\* called, with the default max_attempts = 3.
ContentStart ==
    /\ ep_pc = "content"
    /\ ep_pc' = "wait"
    /\ ep_called' = ep_called \cup { "generate_blog_content" }
    /\ BlogCall("service", LENGTH_MAPPING(ep_body.length), 3)
    /\ UNCHANGED <<ep_body, ep_topic, ep_keywords, ep_openai, ep_content, ep_response>>
    /\ UNCHANGED <<posterVars, mainVars, requestVars>>

\* generate_blog_content runs.
ContentRuns ==
    /\ ep_pc = "wait"
    /\ BlogStep
    /\ UNCHANGED <<posterVars, endpointVars, mainVars, requestVars>>

\* generate_blog_content returned: content_result is its dict.
ContentDone ==
    /\ ep_pc = "wait"
    /\ bl_pc = "done"
    /\ ep_content' = bl_ret
    /\ ep_pc' = "respond"
    /\ UNCHANGED <<ep_body, ep_topic, ep_keywords, ep_called, ep_openai, ep_response>>
    /\ UNCHANGED <<posterVars, blogVars, mainVars, requestVars>>

\* Lines 119-124: generate_blog_content raised and
\* ai.openai_generate_blog_content is called; nothing catches its failure.
ContentFallback(outcome) ==
    /\ ep_pc = "wait"
    /\ bl_pc = "raised"
    /\ ep_called' = ep_called \cup { "openai_generate_blog_content" }
    /\ IF outcome.raises
       THEN /\ ep_pc' = "failed"
            /\ ep_response' = [NoResponse EXCEPT !.status = 500]
            /\ UNCHANGED <<ep_openai, ep_content>>
       ELSE /\ ep_pc' = "respond"
            /\ ep_openai' = outcome.text
            /\ ep_content' = openai_generate_blog_content(outcome.text)
            /\ UNCHANGED ep_response
    /\ UNCHANGED <<ep_body, ep_topic, ep_keywords>>
    /\ UNCHANGED <<posterVars, blogVars, mainVars, requestVars>>

\* Lines 126-160: the title, the plagiarism check and the image catch their
\* providers' failures; the response carries content_result's text and count.
Respond ==
    /\ ep_pc = "respond"
    /\ ep_pc' = "done"
    /\ ep_response' = [status |-> 200, success |-> TRUE,
                       markdown |-> ep_content.blogText,
                       wordCount |-> ep_content.wordCount,
                       keywords |-> ep_keywords]
    /\ UNCHANGED <<ep_body, ep_topic, ep_keywords, ep_called, ep_openai, ep_content>>
    /\ UNCHANGED <<posterVars, blogVars, mainVars, requestVars>>

InitEndpoint ==
    /\ ep_pc = "idle"
    /\ ep_body = [topic |-> None, industry |-> None, keywords |-> << >>, length |-> "Huge"]
    /\ ep_topic = None
    /\ ep_keywords = << >>
    /\ ep_called = {}
    /\ ep_openai = << >>
    /\ ep_content = NoBlog
    /\ ep_response = NoResponse

NextEndpoint ==
    \/ \E body \in BlogBodies, idea_keywords \in { << "i" >>, << >> } :
          GenerateBlogStart(body, idea_keywords)
    \/ \E outcome \in KeywordOutcomes : KeywordsPerplexity(outcome)
    \/ \E outcome \in KeywordOutcomes : KeywordsOpenAI(outcome)
    \/ ContentStart
    \/ ContentRuns
    \/ ContentDone
    \/ \E outcome \in OpenAIOutcomes : ContentFallback(outcome)
    \/ Respond

(***************************************************************************)
(* generate_flyer.py and generate_blog.py: StdoutRedirector and main       *)
(***************************************************************************)

\* generate_flyer.main, lines 36-77: the calls made inside the with block,
\* whether they print(), whether an exception can leave them, and whether
\* they can wait without end.
FlyerStages ==
    << [name |-> "init_vertex", prints |-> TRUE, raises |-> TRUE, blocks |-> FALSE],
       [name |-> "GenerateRequest", prints |-> FALSE, raises |-> TRUE, blocks |-> FALSE],
       [name |-> "generate_background", prints |-> TRUE, raises |-> TRUE, blocks |-> FALSE],
       [name |-> "generate_marketing_text", prints |-> TRUE, raises |-> TRUE,
        blocks |-> FALSE],
       [name |-> "pick_template", prints |-> FALSE, raises |-> FALSE, blocks |-> FALSE],
       [name |-> "template_fn", prints |-> FALSE, raises |-> TRUE, blocks |-> FALSE] >>

\* generate_blog.main, lines 214-289: its own messages go to sys.stderr by
\* name; the title, plagiarism and image steps catch their exceptions; every
\* provider call is a requests.post without a timeout.
BlogStages ==
    << [name |-> "generate_keywords", prints |-> FALSE, raises |-> TRUE, blocks |-> TRUE],
       [name |-> "generate_blog_content", prints |-> FALSE, raises |-> TRUE,
        blocks |-> TRUE],
       [name |-> "generate_seo_title", prints |-> FALSE, raises |-> FALSE, blocks |-> TRUE],
       [name |-> "check_plagiarism", prints |-> FALSE, raises |-> FALSE, blocks |-> TRUE],
       [name |-> "generate_image", prints |-> FALSE, raises |-> FALSE, blocks |-> TRUE],
       [name |-> "format_html", prints |-> FALSE, raises |-> FALSE, blocks |-> FALSE] >>

MainStages(script) == IF script = "flyer" THEN FlyerStages ELSE BlogStages

\* print(text): a write to the stream sys.stdout names at the time.
PrintTo(stream, doc) ==
    /\ real_stdout' = IF stream = "stdout" THEN Append(real_stdout, doc) ELSE real_stdout
    /\ real_stderr' = IF stream = "stderr" THEN real_stderr + 1 ELSE real_stderr

\* main() starts with sys.argv.
MainCall(script, argv) ==
    /\ mn_pc = "idle"
    /\ mn_pc' = "parse"
    /\ mn_script' = script
    /\ mn_argv' = argv
    /\ UNCHANGED <<mn_at, mn_exc, mn_original, sys_stdout, real_stdout, real_stderr>>

\* if len(sys.argv) < 2: raise ValueError(...); data = json.loads(raw_input)
MainParse ==
    /\ mn_pc = "parse"
    /\ CASE mn_argv = "none" -> mn_pc' = "except" /\ mn_exc' = "ValueError"
         [] mn_argv = "invalid" -> mn_pc' = "except" /\ mn_exc' = "JSONDecodeError"
         [] mn_argv = "json" -> mn_pc' = "enter" /\ mn_exc' = mn_exc
    /\ UNCHANGED <<mn_script, mn_argv, mn_at, mn_original, sys_stdout, real_stdout,
                   real_stderr>>

\* StdoutRedirector.__enter__
RedirectorEnter ==
    /\ mn_pc = "enter"
    /\ mn_original' = sys_stdout
    /\ sys_stdout' = "stderr"
    /\ mn_pc' = "pipeline"
    /\ mn_at' = 1
    /\ UNCHANGED <<mn_script, mn_argv, mn_exc, real_stdout, real_stderr>>

\* One call of the with block: it may print, and it returns, raises or waits.
PipelineStage(printed, outcome) ==
    /\ mn_pc = "pipeline"
    /\ LET stage == MainStages(mn_script)[mn_at]
       IN  /\ printed => stage.prints
           /\ outcome = "raise" => stage.raises
           /\ outcome = "block" => stage.blocks
           /\ IF printed
              THEN PrintTo(sys_stdout, [kind |-> "log", success |-> FALSE])
              ELSE UNCHANGED <<real_stdout, real_stderr>>
           /\ CASE outcome = "return" ->
                       /\ mn_at' = mn_at + 1
                       /\ mn_pc' = IF mn_at = Len(MainStages(mn_script))
                                   THEN "exit" ELSE "pipeline"
                       /\ UNCHANGED mn_exc
                [] outcome = "raise" ->
                       /\ mn_exc' = stage.name
                       /\ mn_pc' = "exit"
                       /\ UNCHANGED mn_at
                [] outcome = "block" ->
                       /\ mn_pc' = "blocked"
                       /\ UNCHANGED <<mn_at, mn_exc>>
    /\ UNCHANGED <<mn_script, mn_argv, mn_original, sys_stdout>>

\* A plausible slip: the stream is put back after the block, not in __exit__,
\* so an exception leaves sys.stdout redirected.
StdoutAfterExit_normalOnly ==
    IF mn_exc = None THEN mn_original ELSE sys_stdout

\* StdoutRedirector.__exit__: sys.stdout = self._original_stdout, whether
\* the block ended or raised.
StdoutAfterExit == mn_original

\* The with block is left; __exit__ returns None and an exception goes on
\* to the except clause of main.
RedirectorExit ==
    /\ mn_pc = "exit"
    /\ sys_stdout' = StdoutAfterExit
    /\ mn_pc' = IF mn_exc = None THEN "success" ELSE "except"
    /\ UNCHANGED <<mn_script, mn_argv, mn_at, mn_exc, mn_original, real_stdout,
                   real_stderr>>

\* print(response.model_dump_json()) / print(json.dumps(response))
MainSuccess ==
    /\ mn_pc = "success"
    /\ PrintTo(sys_stdout, [kind |-> "json", success |-> TRUE])
    /\ mn_pc' = "done"
    /\ UNCHANGED <<mn_script, mn_argv, mn_at, mn_exc, mn_original, sys_stdout>>

\* except Exception as e: print(json.dumps(error_res))
MainExcept ==
    /\ mn_pc = "except"
    /\ PrintTo(sys_stdout, [kind |-> "json", success |-> FALSE])
    /\ mn_pc' = "done"
    /\ UNCHANGED <<mn_script, mn_argv, mn_at, mn_exc, mn_original, sys_stdout>>

InitMain ==
    /\ mn_pc = "idle"
    /\ mn_script = "flyer"
    /\ mn_argv = "none"
    /\ mn_at = 0
    /\ mn_exc = None
    /\ mn_original = "stdout"
    /\ sys_stdout = "stdout"
    /\ real_stdout = << >>
    /\ real_stderr = 0

NextMain ==
    /\ \/ \E script \in { "flyer", "blog" }, argv \in { "none", "invalid", "json" } :
             MainCall(script, argv)
       \/ MainParse
       \/ RedirectorEnter
       \/ \E printed \in BOOLEAN, outcome \in { "return", "raise", "block" } :
             PipelineStage(printed, outcome)
       \/ RedirectorExit
       \/ MainSuccess
       \/ MainExcept
    /\ UNCHANGED <<posterVars, blogVars, endpointVars, requestVars>>

(***************************************************************************)
(* app/api/generate.py: generate_poster, and image_service                 *)
(***************************************************************************)

\* The requests served at the same time: FastAPI runs a def endpoint in its
\* thread pool.
Requests == { "r1", "r2" }

\* The template_id values the requests carry.
RequestTemplateIds == { "classic", "template2", "minimal", "random" }

NoPosterResponse == [status |-> 0, image_url |-> None, template_used |-> None]

\* What generate_background leaves at the path it returns when request r
\* calls it; the path is os.path.join(OUTPUT_FOLDER, "background.png") in
\* both branches, one path for every request. In mock mode it is the
\* placeholder, created only if the file does not exist; otherwise the image
\* generated for r, saved over whatever is there.
generate_background(r, mock) ==
    IF mock
    THEN IF bg_file = Absent THEN [state |-> "placeholder"] ELSE bg_file
    ELSE [state |-> r]

\* template_fn.__name__: each of the four functions is bound by
\* `def render(...)` in its module.
FunctionName(fn) ==
    CASE fn = "template1.render" -> "render"
      [] fn = "template2.render" -> "render"
      [] fn = "template3.render" -> "render"
      [] fn = "template4.render" -> "render"

\* Lines 18-22: the request arrives and init_vertex returns the models; the
\* mode is the process's environment, the same for every request.
PosterStart(r, mock) ==
    /\ rq_pc[r] = "idle"
    /\ \A other \in Requests : rq_pc[other] # "idle" => rq_mock[other] = mock
    /\ rq_pc' = [rq_pc EXCEPT ![r] = "background"]
    /\ rq_mock' = [rq_mock EXCEPT ![r] = mock]
    /\ UNCHANGED <<bg_file, rq_bg, rq_fn, rq_read, rq_response>>

\* Lines 27-31: generate_background writes the file and returns its path.
PosterBackground(r) ==
    /\ rq_pc[r] = "background"
    /\ bg_file' = generate_background(r, rq_mock[r])
    /\ rq_bg' = [rq_bg EXCEPT ![r] = bg_file']
    /\ rq_pc' = [rq_pc EXCEPT ![r] = "text"]
    /\ UNCHANGED <<rq_mock, rq_fn, rq_read, rq_response>>

\* Lines 36-39: generate_marketing_text.
PosterText(r) ==
    /\ rq_pc[r] = "text"
    /\ rq_pc' = [rq_pc EXCEPT ![r] = "pick"]
    /\ UNCHANGED <<bg_file, rq_mock, rq_bg, rq_fn, rq_read, rq_response>>

\* Line 44: template_fn = pick_template(request.template_id)
PosterPick(r, template_id) ==
    /\ rq_pc[r] = "pick"
    /\ \E choice \in 1..Len(TEMPLATE_LIST) :
          rq_fn' = [rq_fn EXCEPT ![r] = pick_template(template_id, choice)]
    /\ rq_pc' = [rq_pc EXCEPT ![r] = "render"]
    /\ UNCHANGED <<bg_file, rq_mock, rq_bg, rq_read, rq_response>>

\* Lines 49-54: template_fn(bg_path=bg_path, ...) opens the file at bg_path.
PosterRender(r) ==
    /\ rq_pc[r] = "render"
    /\ rq_read' = [rq_read EXCEPT ![r] = bg_file]
    /\ rq_pc' = [rq_pc EXCEPT ![r] = "respond"]
    /\ UNCHANGED <<bg_file, rq_mock, rq_bg, rq_fn, rq_response>>

\* Lines 59-69: the response names the poster and template_fn.__name__.
PosterRespond(r) ==
    /\ rq_pc[r] = "respond"
    /\ rq_response' = [rq_response EXCEPT ![r] =
                          [status |-> 200, image_url |-> r,
                           template_used |-> FunctionName(rq_fn[r])]]
    /\ rq_pc' = [rq_pc EXCEPT ![r] = "done"]
    /\ UNCHANGED <<bg_file, rq_mock, rq_bg, rq_fn, rq_read>>

\* Lines 71-75: any exception of the steps becomes HTTPException(500).
PosterFail(r) ==
    /\ rq_pc[r] \in { "background", "text", "render" }
    /\ rq_response' = [rq_response EXCEPT ![r] = [NoPosterResponse EXCEPT !.status = 500]]
    /\ rq_pc' = [rq_pc EXCEPT ![r] = "failed"]
    /\ UNCHANGED <<bg_file, rq_mock, rq_bg, rq_fn, rq_read>>

InitRequests ==
    /\ bg_file = Absent
    /\ rq_pc = [r \in Requests |-> "idle"]
    /\ rq_mock = [r \in Requests |-> FALSE]
    /\ rq_bg = [r \in Requests |-> Absent]
    /\ rq_fn = [r \in Requests |-> None]
    /\ rq_read = [r \in Requests |-> Absent]
    /\ rq_response = [r \in Requests |-> NoPosterResponse]

NextRequests ==
    /\ \E r \in Requests :
          \/ \E mock \in BOOLEAN : PosterStart(r, mock)
          \/ PosterBackground(r)
          \/ PosterText(r)
          \/ \E template_id \in RequestTemplateIds : PosterPick(r, template_id)
          \/ PosterRender(r)
          \/ PosterRespond(r)
          \/ PosterFail(r)
    /\ UNCHANGED <<posterVars, blogVars, endpointVars, mainVars>>

(***************************************************************************)
(* Specifications                                                          *)
(***************************************************************************)

Init ==
    /\ InitSelector /\ InitAmenities /\ InitWrap /\ InitRender /\ InitMarketing
    /\ InitLoaders /\ InitLayouts /\ InitBlog /\ InitEndpoint
    /\ InitMain /\ InitRequests

Next ==
    \/ NextSelector
    \/ NextRegistry
    \/ NextAmenities
    \/ NextWrap
    \/ NextRender
    \/ NextConcurrent
    \/ NextCanvas
    \/ NextRepeat
    \/ NextMarketing
    \/ NextLoaders
    \/ NextLayouts
    \/ NextBlog
    \/ NextEndpoint
    \/ NextMain
    \/ NextRequests

Spec == Init /\ [][Next]_vars

SpecSelector == Init /\ [][NextSelector]_vars

SpecRegistry == Init /\ [][NextRegistry]_vars

SpecAmenities == Init /\ [][NextAmenities]_vars

SpecWrap == Init /\ [][NextWrap]_vars

SpecRender == Init /\ [][NextRender]_vars

SpecCanvas == Init /\ [][NextCanvas]_vars

SpecRepeat == Init /\ [][NextRepeat]_vars

SpecLoaders == Init /\ [][NextLoaders]_vars

SpecLayouts == Init /\ [][NextLayouts]_vars

SpecConcurrent == Init /\ [][NextConcurrent]_vars

SpecMarketing == Init /\ [][NextMarketing]_vars

SpecBlog == Init /\ [][NextBlog]_vars

SpecEndpoint == Init /\ [][NextEndpoint]_vars

SpecMain == Init /\ [][NextMain]_vars

SpecRequests == Init /\ [][NextRequests]_vars

\* Every step of a call that can be taken is taken in the end: the
\* interpreter runs the loop, and a provider call that ends, ends.
SpecBlogLive == SpecBlog /\ WF_vars(NextBlog)

(***************************************************************************)
(* Claims: the template dispatcher                                         *)
(***************************************************************************)

KnownIds ==
    { "classic", "modern", "minimal", "luxury",
      "template1", "template2", "template3", "template4" }

AllRenders ==
    { "template1.render", "template2.render", "template3.render", "template4.render" }

\* The function each known identifier is registered for, as the claim lists them.
RegisteredRender(id) ==
    CASE id \in {"classic", "template1"} -> "template1.render"
      [] id \in {"modern", "template2"}  -> "template2.render"
      [] id \in {"minimal", "template3"} -> "template3.render"
      [] id \in {"luxury", "template4"}  -> "template4.render"

\* C1: for each of the eight known identifiers pick_template returns exactly
\* the render function registered for it, whatever random.choice would draw:
\* every observed call agrees with the registration, so repeated calls agree
\* with each other and an alias agrees with its canonical key.
C1_KnownIdReturnsRegistered ==
    /\ \A p \in picks : p.id \in KnownIds => p.fn = RegisteredRender(p.id)
    /\ \A id \in KnownIds : \A choice \in 1..Len(TEMPLATE_LIST) :
          pick_template(id, choice) = RegisteredRender(id)
    /\ \A a \in DOMAIN TEMPLATE_ALIASES : \A c1, c2 \in 1..Len(TEMPLATE_LIST) :
          pick_template(a, c1) = pick_template(TEMPLATE_ALIASES[a], c2)

\* C1 witness: an alias and its canonical key have both been selected.
C1_Witness ==
    /\ [id |-> "classic", fn |-> "template1.render"] \in picks
    /\ [id |-> "template1", fn |-> "template1.render"] \in picks
    /\ [id |-> "template4", fn |-> "template4.render"] \in picks

\* C2: for None, 'random', '' and any string in neither table, pick_template
\* raises nothing and returns one of the four registered render functions,
\* and each of the four is a possible result.
C2_UnknownIdFallsToRandom ==
    /\ \A p \in picks : p.id \notin KnownIds => p.fn \in AllRenders
    /\ \A id \in TemplateIds \ KnownIds :
          { pick_template(id, choice) : choice \in 1..Len(TEMPLATE_LIST) } = AllRenders

\* C2 witness: one unrecognized identifier has been answered with all four
\* render functions.
C2_Witness ==
    \E id \in {None, "random", "", "Classic", "template5"} :
        \A f \in AllRenders : [id |-> id, fn |-> f] \in picks

(***************************************************************************)
(* Claims: the horizontal wrap-flow of template 1                          *)
(***************************************************************************)

\* The placements that share the row at height y.
RowOf(y) == { k \in 1..Len(am_placed) : am_placed[k].text_at[2] = y }

RECURSIVE SumWidths(_)
SumWidths(ks) ==
    IF ks = {} THEN 0
    ELSE LET k == CHOOSE k \in ks : TRUE
         IN  am_placed[k].total_width + SumWidths(ks \ {k})

\* C3: no row holds two or more items whose widths (icon + gap + text +
\* trailing padding each) sum to more than max_width, and an item is moved to
\* a new row exactly when placing it at the current horizontal cursor would
\* extend beyond start_x + max_width.
C3_RowsFitAndWrapExactly ==
    /\ \A k \in 1..Len(am_placed) :
          LET row == RowOf(am_placed[k].text_at[2])
          IN  Cardinality(row) >= 2 => SumWidths(row) <= AmenMaxWidth
    /\ \A k \in 1..Len(am_placed) :
          LET p == am_placed[k]
          IN  /\ p.total_width = 24 + 16 + TextLength(p.item) + 30
              /\ p.wrapped <=> (p.cursor_x + p.total_width > 120 + 840)
              /\ p.wrapped <=> (p.text_at[2] # p.cursor_y)

\* C3 witness: a finished layout with a row that two items fill exactly and
\* an item that was moved to the next row.
C3_Witness ==
    /\ am_pc = "done"
    /\ \E k \in 1..Len(am_placed) :
          /\ Cardinality(RowOf(am_placed[k].text_at[2])) >= 2
          /\ SumWidths(RowOf(am_placed[k].text_at[2])) = AmenMaxWidth
    /\ \E k \in 2..Len(am_placed) : am_placed[k].wrapped

(***************************************************************************)
(* Claims: get_wrapped_text                                                *)
(***************************************************************************)

RECURSIVE SplitLinesFrom(_, _, _)
\* s.split("\n") from character k on: every line break ends a line, so the
\* empty lines are kept.
SplitLinesFrom(s, k, line) ==
    IF k > Len(s) THEN << line >>
    ELSE IF s[k] = "\n"
         THEN << line >> \o SplitLinesFrom(s, k + 1, << >>)
         ELSE SplitLinesFrom(s, k + 1, Append(line, s[k]))

\* The lines of an output string.
OutputLines(s) == SplitLinesFrom(s, 1, << >>)

\* C4: every line of the output that holds more than one word measures
\* <= max_pixel_width; a line that exceeds the maximum consists of exactly
\* one word, and that word is a word of the input, not split or hyphenated.
C4_LinesFitExceptSingleWords ==
    wt_pc = "done" =>
        \A k \in 1..Len(OutputLines(wt_out)) :
            LET line == OutputLines(wt_out)[k]
            IN  /\ Len(Split(line)) > 1 => GetLength(line) <= wt_max
                /\ GetLength(line) > wt_max =>
                      /\ Len(Split(line)) = 1
                      /\ line = Split(line)[1]
                      /\ \E j \in 1..Len(Split(wt_text)) : Split(wt_text)[j] = line

\* C4 witness: a finished wrap whose output has a line of two words that
\* fills the width exactly and a line that is one word wider than the width.
C4_Witness ==
    /\ wt_pc = "done"
    /\ \E k \in 1..Len(OutputLines(wt_out)) :
          /\ Len(Split(OutputLines(wt_out)[k])) = 2
          /\ GetLength(OutputLines(wt_out)[k]) = wt_max
    /\ \E k \in 1..Len(OutputLines(wt_out)) :
          GetLength(OutputLines(wt_out)[k]) > wt_max

\* C5: the wrap is greedy. Going through the words in order, a word is
\* appended to the current line if and only if the current line joined with
\* that word by one space measures <= max_pixel_width; otherwise the current
\* line is closed and the word starts a new line; the result is the lines
\* joined by a line break.
C5_GreedyStep ==
    [][ /\ (wt_pc = "loop" /\ wt_i' = wt_i + 1) =>
            LET word == Split(wt_text)[wt_i]
                joined == IF wt_current = << >> THEN word
                          ELSE Join(wt_current, << " " >>) \o << " " >> \o word
            IN  IF GetLength(joined) <= wt_max
                THEN /\ wt_current' = wt_current \o << word >>
                     /\ wt_lines' = wt_lines
                ELSE /\ wt_lines' = wt_lines \o << Join(wt_current, << " " >>) >>
                     /\ wt_current' = << word >>
        /\ (wt_pc = "loop" /\ wt_pc' = "done") =>
            /\ wt_i = Len(Split(wt_text)) + 1
            /\ wt_out' = Join(wt_lines', << "\n" >>)
            /\ wt_lines' = IF wt_current = << >> THEN wt_lines
                           ELSE wt_lines \o << Join(wt_current, << " " >>) >>
      ]_vars

\* C5 witness: a finished wrap in which a word was appended to a line and a
\* line was closed for the next word.
C5_Witness ==
    /\ wt_pc = "done"
    /\ Len(wt_lines) >= 2
    /\ \E k \in 1..Len(wt_lines) : Len(Split(wt_lines[k])) >= 2

(***************************************************************************)
(* Claims: the render pipelines                                            *)
(***************************************************************************)

\* The block of the stage named `stage` in a template's render.
BlockOf(tpl, stage) ==
    LET k == CHOOSE k \in 1..Len(Stages(tpl)) : Stages(tpl)[k].stage = stage
    IN  Stages(tpl)[k].block

\* The place of a block in the order the specification states.
StatedRank(block) ==
    CASE block = "background" -> 10
      [] block = "overlay" -> 20
      [] block = "header" -> 30
      [] block = "price" -> 40
      [] block = "amenity" -> 50
      [] block = "cta" -> 60
      [] block = "footer" -> 70
      [] block = "save" -> 80
      [] block = "return" -> 90

\* The place of a stage in the order the code runs: as stated, except that
\* template 1 draws its CTA ribbon before its amenity block and template 4
\* pastes its logo between the overlays and the header.
CodedRank(tpl, stage) ==
    CASE tpl = 1 /\ BlockOf(tpl, stage) = "cta" -> 50
      [] tpl = 1 /\ BlockOf(tpl, stage) = "amenity" -> 60
      [] tpl = 4 /\ stage = "logo" -> 25
      [] OTHER -> StatedRank(BlockOf(tpl, stage))

\* The positions of the trace that hold a stage of the compositing order
\* (not the loading of fonts and files, which draws nothing).
Ordered(p) ==
    { k \in 1..Len(r_trace[p]) : BlockOf(r_tpl[p], r_trace[p][k]) # "setup" }

\* C6 as stated: in every template the stages run in the order background,
\* overlay(s), header, price/info, amenity, CTA, footer (phone, call icon,
\* logo), save; no stage runs before a stage that precedes it in this order.
C6_StagesInStatedOrder ==
    \A p \in Procs : \A i, j \in Ordered(p) :
        i < j => StatedRank(BlockOf(r_tpl[p], r_trace[p][i]))
                   <= StatedRank(BlockOf(r_tpl[p], r_trace[p][j]))

\* C6 as amended: templates 2 and 3 run the stages in the stated order;
\* template 1 runs them in that order except that the CTA ribbon is drawn
\* before the amenity block; template 4 runs them in that order except that
\* the logo is pasted after the overlays and before the header text. In all
\* four the background is pasted first and the save comes after every
\* drawing stage.
C6_StagesInCodedOrder ==
    \A p \in Procs : \A i, j \in Ordered(p) :
        i < j =>
          /\ CodedRank(r_tpl[p], r_trace[p][i]) <= CodedRank(r_tpl[p], r_trace[p][j])
          /\ r_tpl[p] \in {2, 3} =>
                StatedRank(BlockOf(r_tpl[p], r_trace[p][i]))
                  <= StatedRank(BlockOf(r_tpl[p], r_trace[p][j]))
          /\ BlockOf(r_tpl[p], r_trace[p][j]) = "background" => FALSE
          /\ BlockOf(r_tpl[p], r_trace[p][i]) = "save" =>
                BlockOf(r_tpl[p], r_trace[p][j]) \in {"save", "return"}

\* C6 witness: a render of template 1 has returned, having drawn the ribbon,
\* then the amenities, then the footer, and saved.
C6_Witness ==
    /\ r_pc["p1"] = "done"
    /\ r_tpl["p1"] = 1
    /\ \E i, j, k \in 1..Len(r_trace["p1"]) :
          /\ i < j /\ j < k
          /\ r_trace["p1"][i] = "cta_ribbon"
          /\ r_trace["p1"][j] = "amenities"
          /\ r_trace["p1"][k] = "save"

\* C7 as stated: a render completes and returns a path when a font, icon or
\* logo file that the template uses is missing; no render is ended by the
\* absence of such a file.
C7_MissingAssetNeverRaises ==
    \A p \in Procs :
        r_pc[p] = "raised" =>
            ~ ( /\ r_exc[p].type = "FileNotFoundError"
                /\ r_exc[p].path \in FontFiles \cup IconFiles \cup LogoFiles )

RECURSIVE LayersFrom(_, _, _)
\* The layers the stages from k on composite, for a data argument, on the
\* filesystem as it is.
LayersFrom(tpl, k, logo_path) ==
    IF k > Len(Stages(tpl)) THEN << >>
    ELSE LET st == Stages(tpl)[k]
             here ==
               CASE st.op = "draw" -> << [stage |-> st.stage, block |-> st.block] >>
                 [] st.op = "paste_icon" ->
                      IF st.asset \in fs_missing THEN << >>
                      ELSE << [stage |-> st.stage, block |-> st.block] >>
                 [] st.op = "paste_logo" ->
                      IF logo_path \in {None, ""} \/ logo_path \in fs_missing THEN << >>
                      ELSE << [stage |-> st.stage, block |-> st.block] >>
                 [] OTHER -> << >>
         IN  here \o LayersFrom(tpl, k + 1, logo_path)

\* The image an invocation writes when it runs alone.
AloneImage(p) ==
    [ tpl |-> r_tpl[p],
      size |-> IF r_tpl[p] = 4 THEN tpl_png ELSE <<1080, 1350>>,
      layers |-> LayersFrom(r_tpl[p], 1, r_data[p].logo_path),
      default_fonts |-> {} ]

\* C8: concurrent renders with distinct job_ids do not interfere: each has
\* written, at the path of its own job_id, exactly the image it writes when
\* run alone, and the shared icon is as it was loaded; two renders with the
\* same job_id both return the same path and neither is rejected.
C8_ConcurrentRendersIndependent ==
    /\ TICK_ICON = [file |-> "assets/tick.png", size |-> <<24, 24>>]
    /\ \A p \in Procs :
          r_pc[p] = "done" =>
            /\ r_ret[p] = "outputs/poster_" \o r_job[p] \o ".png"
            /\ r_canvas[p] = AloneImage(p).layers
            /\ (\A q \in Procs \ {p} : r_job[q] # r_job[p]) =>
                  files[r_ret[p]] = [state |-> "complete", by |-> p, image |-> AloneImage(p)]
            /\ \A q \in Procs \ {p} :
                  (r_job[q] = r_job[p] /\ r_pc[q] = "done") =>
                      /\ r_ret[q] = r_ret[p]
                      /\ files[r_ret[p]].state = "complete"
                      /\ files[r_ret[p]].by \in {p, q}

\* C8 witness: two renders of different templates with different job_ids
\* have both returned, their saves having overlapped or not.
C8_Witness ==
    /\ r_pc["p1"] = "done" /\ r_pc["p2"] = "done"
    /\ r_job["p1"] # r_job["p2"]
    /\ r_tpl["p1"] = 1 /\ r_tpl["p2"] = 3
    /\ files[r_ret["p1"]].by = "p1"
    /\ files[r_ret["p2"]].by = "p2"

\* Two renders with the same job_id have both returned.
C8_CollisionReached ==
    /\ r_pc["p1"] = "done" /\ r_pc["p2"] = "done"
    /\ r_job["p1"] = r_job["p2"]
    /\ r_tpl["p1"] # r_tpl["p2"]

\* C9 as stated: when a render fails at any stage the exception leaves
\* render (there is no retry) and no partial output file for that job_id is
\* left by that render.
C9_FailureLeavesNoPartialFile ==
    \A p \in Procs :
        r_pc[p] = "raised" =>
            /\ r_exc[p].stage = Stage(p).stage
            /\ r_ret[p] = None
            /\ files[OutputPath(r_job[p])] # [state |-> "partial", by |-> p]

(***************************************************************************)
(* Claims: the marketing copy                                              *)
(***************************************************************************)

\* C10 as stated: every record generate_marketing_text returns, in mock mode
\* and in model mode, has a non-empty title, subline, subline2 and cta and a
\* non-empty amenities list in which every entry is a non-empty string.
C10_EveryFieldNonEmpty ==
    mt_pc = "done" =>
        /\ mt_result.title # << >>
        /\ mt_result.subline # << >>
        /\ mt_result.subline2 # << >>
        /\ mt_result.cta # << >>
        /\ mt_result.amenities # << >>
        /\ \A k \in 1..Len(mt_result.amenities) : mt_result.amenities[k] # << >>

\* C11: a render that completes has written exactly one file, at
\* <OUTPUT_FOLDER>/poster_<job_id>.png, and returns that path; the path is a
\* function of job_id alone and distinct job_ids give distinct paths.
C11_OneFileAtJobPath ==
    /\ \A j1, j2 \in JobIds : j1 # j2 => OutputPath(j1) # OutputPath(j2)
    /\ \A p \in Procs :
          r_pc[p] = "done" =>
            /\ r_ret[p] = "outputs/poster_" \o r_job[p] \o ".png"
            /\ files[r_ret[p]].state = "complete"
            /\ files[r_ret[p]].by = p
            /\ \A path \in DOMAIN files :
                  (files[path].state # "absent" /\ files[path].by = p) => path = r_ret[p]

\* C11 witness: a render of template 4 under job_id j2 has returned while the
\* poster an earlier run left under j1 is still on the disk.
C11_Witness ==
    /\ r_pc["p1"] = "done"
    /\ r_tpl["p1"] = 4
    /\ r_job["p1"] = "j2"
    /\ files[r_ret["p1"]].state = "complete"
    /\ files[OutputPath("j1")].state = "complete"
    /\ files[OutputPath("j1")].by = "earlier run"

(***************************************************************************)
(* Claims: the canvas and the background                                   *)
(***************************************************************************)

\* C12 as stated: the image a render writes has the template's fixed canvas
\* size, 1080x1350 for templates 1, 2 and 3 and 1080x1920 for template 4,
\* whatever the background's dimensions, whatever the asset files hold and
\* whether or not a logo is supplied.
C12_WrittenImageHasFixedSize ==
    \A p \in Procs :
        (r_pc[p] = "done" /\ files[r_ret[p]].by = p) =>
            files[r_ret[p]].image.size =
                (IF r_tpl[p] = 4 THEN <<1080, 1920>> ELSE <<1080, 1350>>)

C14_RepeatedRenderWritesSame ==
    \A p, q \in Procs :
        ( /\ p # q
          /\ r_pc[p] = "done" /\ r_pc[q] = "done"
          /\ r_tpl[p] = r_tpl[q] /\ r_job[p] = r_job[q]
          /\ r_bg[p] = r_bg[q] /\ r_data[p] = r_data[q]
          /\ r_geom[p].bgdim = r_geom[q].bgdim ) =>
            /\ Image(p) = Image(q)
            /\ r_ret[p] = r_ret[q]
            /\ files[r_ret[q]].state = "complete"
            /\ files[r_ret[q]].image = Image(p)

\* C14 witness: template 3 has been rendered twice with a logo while the
\* call icon is missing; both renders returned.
C14_Witness ==
    /\ r_pc["p1"] = "done" /\ r_pc["p2"] = "done"
    /\ r_tpl["p1"] = 3 /\ r_tpl["p2"] = 3
    /\ r_data["p1"].logo_path = "uploads/logo.png"
    /\ fs_missing = { "assets/call.png" }
    /\ files[r_ret["p2"]].by = "p2"

(***************************************************************************)
(* Claims: the amenity layouts                                             *)
(***************************************************************************)

\* Where the k-th placement put its icon and text: the cursor it drew at.
PlacedAt(k) == << am_placed[k].icon_at[1], am_placed[k].icon_at[2] - 6 >>

\* The cursor before the k-th placement: the start, or where the one before
\* left it.
CursorBefore(k) ==
    IF k = 1 THEN << 120, 1000 >>
    ELSE << PlacedAt(k - 1)[1] + am_placed[k - 1].total_width, PlacedAt(k - 1)[2] >>

\* C15: draw_amenities_horizontal_wrapped places each item once and in list
\* order; on a wrap the vertical cursor grows by font.size + row_gap and the
\* horizontal cursor is start_x when the item is placed; without a wrap the
\* vertical cursor is unchanged; after an item the horizontal cursor has
\* grown by the item's total width.
C15_CursorRules ==
    /\ Len(am_placed) = (IF am_pc = "idle" THEN 0 ELSE am_i - 1)
    /\ am_pc = "done" => Len(am_placed) = Len(am_items)
    /\ \A k \in 1..Len(am_placed) :
          /\ am_placed[k].index = k
          /\ am_placed[k].item = am_items[k]
          /\ am_placed[k].text_at = << PlacedAt(k)[1] + 24 + 16, PlacedAt(k)[2] >>
          /\ am_placed[k].total_width = 24 + 16 + TextLength(am_items[k]) + 30
          /\ IF am_placed[k].wrapped
             THEN PlacedAt(k) = << 120, CursorBefore(k)[2] + 36 + 12 >>
             ELSE PlacedAt(k) = CursorBefore(k)
          /\ k = Len(am_placed) =>
                /\ am_x = PlacedAt(k)[1] + am_placed[k].total_width
                /\ am_y = PlacedAt(k)[2]

\* C15 witness: a list has been laid out whose second item stayed on the
\* first row and whose third item wrapped.
C15_Witness ==
    /\ am_pc = "done"
    /\ Len(am_placed) >= 3
    /\ ~am_placed[2].wrapped
    /\ am_placed[3].wrapped
    /\ PlacedAt(3) = << 120, 1048 >>

\* C16: template 2 draws amenities[0] and [1] in the left column and
\* amenities[2] and [3] in the right column, both columns starting at the
\* same y and advancing by 42 per item; items at index >= 4 are never drawn
\* and cause no error; a shorter list draws only the items present.
C16_TwoColumnsOfTwo ==
    ly_tpl = 2 =>
      /\ Len(ly_drawn) <= 4 /\ Len(ly_drawn) <= Len(ly_items)
      /\ ly_pc = "done" =>
            Len(ly_drawn) = (IF Len(ly_items) < 4 THEN Len(ly_items) ELSE 4)
      /\ \A k \in 1..Len(ly_drawn) :
            /\ ly_drawn[k].item = ly_items[k]
            /\ ly_drawn[k].column = (IF k <= 2 THEN "left" ELSE "right")
            /\ ly_drawn[k].text_at =
                  IF k <= 2 THEN << 250, 1150 + 42 * (k - 1) >>
                            ELSE << 620, 1150 + 42 * (k - 3) >>
            /\ ly_drawn[k].tick_at =
                  << ly_drawn[k].text_at[1] - (28 + 14), ly_drawn[k].text_at[2] + 4 >>

\* C16 witness: the block has finished on a list of six items, four of them
\* drawn.
C16_Witness ==
    /\ ly_tpl = 2 /\ ly_pc = "done"
    /\ Len(ly_items) = 6
    /\ Len(ly_drawn) = 4
    /\ ly_drawn[3].text_at = << 620, 1150 >>

\* The block has finished on a list of three items: two left, one right.
C16_ShortListReached ==
    /\ ly_tpl = 2 /\ ly_pc = "done"
    /\ Len(ly_items) = 3
    /\ Len(ly_drawn) = 3

\* C17: template 3's draw_amenities places the item at index i in column
\* i // 4 and row i % 4, at x = start_x + col * (col_width + col_gap) and
\* y = start_y + row * line_height, for a list of any length; exactly the
\* items with i < 8 fall inside the two columns of the layout; no two items
\* of a list are given the same position.
C17_ColumnsByQuotient ==
    ly_tpl = 3 =>
      /\ ly_pc = "done" => Len(ly_drawn) = Len(ly_items)
      /\ \A k \in 1..Len(ly_drawn) :
            LET i == k - 1
                x == ly_drawn[k].tick_at[1]
                y == ly_drawn[k].tick_at[2]
            IN  /\ ly_drawn[k].index = i
                /\ ly_drawn[k].item = ly_items[k]
                /\ x = 140 + (i \div 4) * (360 + 60)
                /\ y = 900 + (i % 4) * 48
                /\ ly_drawn[k].text_at = << x + 28, y >>
                /\ (x \in {140, 560}) <=> (i < 8)
      /\ \A j, k \in 1..Len(ly_drawn) :
            j # k => ly_drawn[j].tick_at # ly_drawn[k].tick_at

\* C17 witness: a list of nine items has been drawn; the ninth starts a
\* third column, to the right of the layout.
C17_Witness ==
    /\ ly_tpl = 3 /\ ly_pc = "done"
    /\ Len(ly_drawn) = 9
    /\ ly_drawn[5].tick_at = << 560, 900 >>
    /\ ly_drawn[9].tick_at = << 980, 900 >>

C19_LoadersNeverRaise ==
    /\ ld.exc = None
    /\ ld.fn = "load_font" => ld.ret.kind \in { "truetype", "default" }
    /\ ld.fn \in { "load_icon", "load_logo" } =>
          (ld.ret.kind = "none") <=>
              (ld.path = None \/ ld.path = "" \/ ld.path \in ld.fs.missing)

\* C20: when the data has no logo_path (absent, None or empty) or it names a
\* file that does not exist, the logo stage raises nothing and pastes no
\* logo layer, and a render that returns has none; a logo layer is on the
\* canvas only when logo_path names an existing file.
C20_LogoOmittedWhenAbsent ==
    \A p \in Procs :
        r_pc[p] # "idle" =>
          LET path == r_data[p].logo_path
              absent == path = None \/ path = "" \/ path \in fs_missing
              pasted == \E k \in 1..Len(r_canvas[p]) : r_canvas[p][k].stage = "logo"
              ran == \E k \in 1..Len(r_trace[p]) : r_trace[p][k] = "logo"
          IN  /\ pasted => ~absent
              /\ (absent /\ r_pc[p] = "raised") => r_exc[p].stage # "logo"
              /\ (ran /\ ~absent /\ r_pc[p] # "raised") => pasted

\* C20 witness: template 3 has returned for a logo_path that names a file
\* that does not exist, with no logo layer on its canvas.
C20_Witness ==
    /\ r_pc["p1"] = "done"
    /\ r_tpl["p1"] = 3
    /\ r_data["p1"].logo_path = "uploads/logo.png"
    /\ "uploads/logo.png" \in fs_missing
    /\ \A k \in 1..Len(r_canvas["p1"]) : r_canvas["p1"][k].stage # "logo"

\* Template 4 has returned with the logo on its canvas.
C20_LogoPastedReached ==
    /\ r_pc["p1"] = "done"
    /\ r_tpl["p1"] = 4
    /\ \E k \in 1..Len(r_canvas["p1"]) : r_canvas["p1"][k].stage = "logo"

\* ---------------------------------------------------------------------------
\* The glass panel of template 2.
IndexIn(seq, x) ==
    IF \E k \in 1..Len(seq) : seq[k] = x
    THEN CHOOSE k \in 1..Len(seq) : seq[k] = x
    ELSE 0

\* C21: in template 2 the glass panel's blurred content is cropped from the
\* resized original background and never from the canvas: the crop holds the
\* background alone, without the title and the divider drawn on the canvas
\* before it, and the panel is on the canvas before the glow, the price tag,
\* the amenities and the call-to-action button.
C21_GlassFromPristineBackground ==
    \A p \in Procs :
        ( r_tpl[p] = 2 /\ IndexIn(r_trace[p], "glass_card") > 0 ) =>
            /\ r_geom[p].crop.from = "base"
            /\ r_geom[p].crop.layers = << [stage |-> "paste_bg", block |-> "background"] >>
            /\ \A k \in 1..Len(r_geom[p].crop.layers) :
                    r_geom[p].crop.layers[k].stage \notin { "title", "divider" }
            /\ \A later \in { "glow", "prelaunch_tag", "amenities", "cta_button" } :
                    IndexIn(r_trace[p], later) > 0 =>
                        IndexIn(r_trace[p], "glass_card") < IndexIn(r_trace[p], later)

\* A template 2 render finished: title and divider were drawn on the canvas
\* before the panel was cropped, and the overlays were stacked after it.
C21_Witness ==
    /\ r_pc["p1"] = "done"
    /\ r_tpl["p1"] = 2
    /\ IndexIn(r_trace["p1"], "title") < IndexIn(r_trace["p1"], "glass_card")
    /\ IndexIn(r_trace["p1"], "divider") < IndexIn(r_trace["p1"], "glass_card")
    /\ IndexIn(r_trace["p1"], "cta_button") > IndexIn(r_trace["p1"], "glass_card")
    /\ r_geom["p1"].crop.layers # << >>
    /\ Len(r_canvas["p1"]) > 3

\* ---------------------------------------------------------------------------
\* The registry under the selector's three functions.

C23_BlogContentTerminates ==
    (bl_pc # "idle") ~> (bl_pc \in { "done", "raised" })

\* What the loop guarantees while it runs: at most max_attempts provider
\* calls, at least one when length_num > 0 and max_attempts > 0, none once the
\* count has reached length_num, a count that never decreases, a returned
\* wordCount that is the word count of the returned text, and a raise that
\* ends the call.
C23_LoopBounded ==
    /\ bl_attempts <= IF bl_max > 0 THEN bl_max ELSE 0
    /\ Len(bl_counts) <= bl_attempts
    /\ \A k \in 1..Len(bl_counts) - 1 :
          bl_counts[k] <= bl_counts[k + 1] /\ bl_counts[k] < bl_length
    /\ bl_pc = "done" =>
          /\ bl_ret.wordCount = Len(Split(bl_ret.blogText))
          /\ bl_ret.wordCount = Len(Split(bl_text))
          /\ (bl_length > 0 /\ bl_max > 0) => bl_attempts >= 1
          /\ bl_words >= bl_length \/ bl_attempts = bl_max \/ bl_max <= 0
    /\ bl_pc = "raised" => bl_ret = NoBlog

\* The loop ran three times and returned a text of three words.
C23_LoopReached ==
    /\ bl_pc = "done"
    /\ bl_attempts = 3
    /\ bl_ret.wordCount = 3

\* ---------------------------------------------------------------------------
\* The blog endpoint's fallbacks.
KeywordsWereBlank ==
    \/ "generate_title_and_keywords" \in ep_called
    \/ TextStrip(ep_body.keywords) = << >>

C25_OneJsonDocumentOnStdout ==
    /\ \A k \in 1..Len(real_stdout) : real_stdout[k].kind = "json"
    /\ mn_pc \in { "idle", "parse", "enter", "pipeline", "exit", "success", "except",
                   "blocked" } => real_stdout = << >>
    /\ mn_pc \in { "success", "except", "done" } => sys_stdout = "stdout"
    /\ mn_pc = "done" =>
          /\ Len(real_stdout) = 1
          /\ real_stdout[1].success <=>
                ( mn_exc = None /\ mn_at = Len(MainStages(mn_script)) + 1 )

\* A flyer run printed twice inside the block and then failed at the render:
\* the error object is the one document on stdout.
C25_Witness ==
    /\ mn_pc = "done"
    /\ mn_script = "flyer"
    /\ mn_exc = "template_fn"
    /\ real_stderr >= 2
    /\ Len(real_stdout) = 1

\* A run completed its pipeline and printed the success response.
C25_SuccessReached ==
    /\ mn_pc = "done"
    /\ mn_exc = None
    /\ real_stderr >= 1
    /\ real_stdout = << [kind |-> "json", success |-> TRUE] >>

\* ---------------------------------------------------------------------------
\* Concurrent poster requests.

\* C26: when two poster requests are processed concurrently, each poster is
\* rendered over the background generated for that same request: from the
\* return of a request's generate_background to its render's read, the file
\* at the returned path is the one that call left there.
C26_BackgroundIsTheRequestsOwn ==
    \A r \in Requests :
        /\ rq_pc[r] \in { "text", "pick", "render" } => bg_file = rq_bg[r]
        /\ rq_pc[r] \in { "respond", "done" } => rq_read[r] = rq_bg[r]

\* Both requests ended: r1 was rendered over the image generated for r2.
C26_OverwriteReached ==
    /\ rq_pc["r1"] = "done"
    /\ rq_pc["r2"] = "done"
    /\ rq_bg["r1"] = [state |-> "r1"]
    /\ rq_read["r1"] = [state |-> "r2"]

\* C27: template_used in the poster response identifies the template that
\* rendered the poster: two posters rendered by different templates report
\* different template_used values.
C27_TemplateUsedIdentifies ==
    \A r, q \in Requests :
        ( rq_pc[r] = "done" /\ rq_pc[q] = "done" /\ rq_fn[r] # rq_fn[q] ) =>
            rq_response[r].template_used # rq_response[q].template_used

\* ---------------------------------------------------------------------------
\* Empty lines and empty rows.

\* C28: get_wrapped_text never emits an empty line: for any text and maximum
\* width the output neither starts nor ends with a line break and contains no
\* two consecutive line breaks, and for a text without words the output is
\* the empty string.
C28_NoEmptyLine ==
    wt_pc = "done" =>
        /\ wt_out # << >> => ( Head(wt_out) # "\n" /\ wt_out[Len(wt_out)] # "\n" )
        /\ \A k \in 1..(Len(wt_out) - 1) :
              ~ ( wt_out[k] = "\n" /\ wt_out[k + 1] = "\n" )
        /\ Split(wt_text) = << >> => wt_out = << >>

\* The first word alone is wider than the maximum width, and the returned
\* string begins with a line break.
C28_EmptyLineReached ==
    /\ wt_pc = "done"
    /\ Split(wt_text) # << >>
    /\ GetLength(Split(wt_text)[1]) > wt_max
    /\ Head(wt_out) = "\n"

\* C29: draw_amenities_horizontal_wrapped never wraps while the horizontal
\* cursor is at the row start: the first item of every list is placed at
\* (start_x, start_y), and no row is left without an item, also when an item
\* alone is wider than max_width.
C29_NoWrapAtRowStart ==
    /\ \A k \in 1..Len(am_placed) :
          am_placed[k].cursor_x = AmenStartX => ~ am_placed[k].wrapped
    /\ Len(am_placed) >= 1 =>
          /\ am_placed[1].icon_at = << AmenStartX, AmenStartY + 6 >>
          /\ am_placed[1].text_at = << AmenStartX + IconSize + IconGap, AmenStartY >>
    /\ \A k \in 1..Len(am_placed) :
          \A n \in 0..MaxAmenities :
              am_placed[k].text_at[2] = AmenStartY + n * (AmenityFontSize + RowGap) =>
                  \A m \in 0..n :
                      \E j \in 1..k :
                          am_placed[j].text_at[2] =
                              AmenStartY + m * (AmenityFontSize + RowGap)

\* A list whose first item alone is wider than max_width: it is placed one
\* row below start_y, and the row at start_y holds no item.
C29_EmptyRowReached ==
    /\ am_pc = "done"
    /\ Len(am_placed) >= 2
    /\ am_placed[1].total_width > AmenMaxWidth
    /\ am_placed[1].wrapped
    /\ \A k \in 1..Len(am_placed) : am_placed[k].text_at[2] > AmenStartY

\* C30: get_wrapped_text loses, adds and reorders no word: splitting its
\* output on whitespace gives exactly the sequence of words obtained by
\* splitting the input text on whitespace, for every text and every maximum
\* width, and wrapping the output again with the same font and width returns
\* the same lines.
C30_WordsKeptAndRewrapSame ==
    wt_pc = "done" =>
        /\ Split(wt_out) = Split(wt_text)
        /\ wt_first.set =>
              /\ Split(wt_out) = Split(wt_first.text)
              /\ wt_lines = wt_first.lines
              /\ wt_out = wt_first.out

\* C30 witness: a text of several words with irregular whitespace was
\* wrapped into at least two lines, and its output was wrapped again.
C30_Witness ==
    /\ wt_pc = "done"
    /\ wt_first.set
    /\ Len(Split(wt_first.text)) >= 2
    /\ Len(wt_first.lines) >= 2
    /\ wt_first.text # wt_first.out
====
